---- MODULE Spec2Model ----
(***************************************************************************)
(* js-ipfs-fetch: the routed fetch adapter of src/index.js (lines 1-848),  *)
(* over an abstract IPFS client (MFS, UnixFS export, key store, IPNS).     *)
(*                                                                         *)
(* Strings that the code splits on "/" are modelled as sequences of        *)
(* components (String.prototype.split('/')): "/ipfs/x/a" is                *)
(* <<"", "ipfs", x, "a">> and a trailing slash is a trailing "" component. *)
(* A component is a token: a plain name, a content identifier (the value   *)
(* it addresses), a key identifier or a random scratch name.               *)
(***************************************************************************)
EXTENDS Integers, Sequences, FiniteSets, TLC

VARIABLES
  writable,   \* construction option of makeIPFSFetch
  mfs,        \* the client's mutable file system under /ipfs-fetch-dirs: one node per scratch directory
  keys,       \* the client's key list: sequence of [name, id]
  records,    \* the client's IPNS records: key number -> [seq, value]
  nextKey,    \* number of keys the client has had so far, its own included
  dag,        \* what ipfs.dag.put and ipfs.dag.import have stored
  bus,        \* what ipfs.pubsub.publish has sent: [topic, payload]
  written,    \* history: Location, body and replaced content of every successful single-file write
  req,        \* the request being answered (NoReq when the caller is idle)
  resp,       \* the response in flight to the caller
  phase,      \* the event stream of a subscription: "none", "responded", "open", "stopped"
  format,     \* the format parameter of the subscription request
  calls,      \* pubsub calls made to the client that it has not completed yet
  registered, \* whether the handler of the subscription is subscribed at the client
  seqno,      \* number of messages the bus has delivered to the handler
  delivered,  \* history: the messages delivered to the handler while the stream was open
  pushQueue,  \* EventQueue.pushQueue: events pushed and not yet read
  consumed,   \* history: the events read from the response stream
  run,        \* a handler running its client calls one at a time: handler, position, signal
  tasks       \* two requests handled concurrently: request, position and locals of each handler

streamVars == <<phase, format, calls, registered, seqno, delivered, pushQueue, consumed>>
vars ==
  <<writable, mfs, keys, records, nextKey, dag, bus, written, req, resp,
    phase, format, calls, registered, seqno, delivered, pushQueue, consumed, run, tasks>>

(***************************************************************************)
(* Bounds of the model                                                     *)
(***************************************************************************)
MaxOps == 2      \* state-changing client operations per behaviour
MaxRangeLen == 3 \* longest file of the range-serving specification
MaxMessages == 3 \* messages the bus delivers to a subscription
MaxTaskOps == 4  \* state-changing client operations of a behaviour with concurrent requests

(***************************************************************************)
(* UnixFS nodes.  A content identifier is modelled by the node it          *)
(* addresses (content addressing is injective).  The entries of a          *)
(* directory are a function from names (tokens) to nodes.                  *)
(***************************************************************************)
NoNode == [t |-> "none", data |-> <<>>, ents |-> <<>>]
File(d) == [t |-> "file", data |-> d, ents |-> <<>>]
Dir(e) == [t |-> "dir", data |-> <<>>, ents |-> e]
EmptyDir == Dir(<<>>)

WithEntry(e, name, node) ==
  [n \in (DOMAIN e) \cup {name} |-> IF n = name THEN node ELSE e[n]]

WithoutEntry(e, name) == [n \in (DOMAIN e) \ {name} |-> e[n]]

(***************************************************************************)
(* Tokens and strings                                                      *)
(***************************************************************************)
S(s) == [k |-> "s", s |-> s, n |-> 0, c |-> NoNode, b |-> ""]
E == S("")
\* cid.toString() of a version-1 CID: base32
CidTok(node) == [k |-> "cid", s |-> "", n |-> 0, c |-> node, b |-> "base32"]
\* the identifier of the i-th generated key, in multibase b
KeyTok(i, b) == [k |-> "key", s |-> "", n |-> i, c |-> NoNode, b |-> b]
\* crypto.randomBytes(8).toString('hex'): the i-th draw
RandTok(i) == [k |-> "rand", s |-> "", n |-> i, c |-> NoNode, b |-> ""]

Last(p) == p[Len(p)]
Front(p) == SubSeq(p, 1, Len(p) - 1)

\* a + b for strings (template literals): the last component of a and the
\* first of b are glued; one of them is always empty in this program
Glue(x, y) == IF x = E THEN y ELSE x
Concat(a, b) == Front(a) \o <<Glue(Last(a), Head(b))>> \o Tail(b)

StartsWithSlash(p) == Len(p) >= 2 /\ p[1] = E
EndsWithSlash(p) == Len(p) >= 2 /\ Last(p) = E

ensureStartingSlash(p) == IF ~StartsWithSlash(p) THEN <<E>> \o p ELSE p
ensureEndingSlash(p) == IF ~EndsWithSlash(p) THEN p \o <<E>> ELSE p
stripEndingSlash(p) == IF EndsWithSlash(p) THEN Front(p) ELSE p

\* components.slice(i).join('/') for a 0-based index i: '' when nothing is left
SliceJoin(p, i) == IF Len(p) > i THEN SubSeq(p, i + 1, Len(p)) ELSE <<E>>

\* the non-empty components of a path
NonEmpty(p) == SelectSeq(p, LAMBDA x : x # E)

\* str.split(/\/+/): runs of slashes separate; only the first and the last
\* component can be empty
SplitSlashes(p) ==
  IF Len(p) <= 1 THEN p
  ELSE <<Head(p)>> \o NonEmpty(SubSeq(p, 2, Len(p) - 1)) \o <<Last(p)>>

RECURSIVE Flatten(_)
Flatten(strs) == IF strs = <<>> THEN <<>> ELSE Head(strs) \o Flatten(Tail(strs))

\* array.join('/') of strings
JoinSlash(strs) == Flatten(strs)

\* posixPath.join(a, b, ...): empty arguments are skipped, the rest is joined
\* and normalised (runs of slashes collapse, a trailing slash is kept; the
\* model has no "." or ".." names)
Normalize(used, names) ==
  IF used = <<>> THEN <<S(".")>>
  ELSE IF names = <<>> THEN (IF StartsWithSlash(Head(used)) THEN <<E, E>> ELSE <<S(".")>>)
  ELSE (IF StartsWithSlash(Head(used)) THEN <<E>> ELSE <<>>) \o names
       \o (IF EndsWithSlash(Last(used)) THEN <<E>> ELSE <<>>)
JoinUsed(used) == Normalize(used, NonEmpty(Flatten(used)))
posixJoin(args) == JoinUsed(SelectSeq(args, LAMBDA a : a # <<E>>))

(***************************************************************************)
(* URLs.  A URL string is its scheme and what follows "://", split on "/". *)
(***************************************************************************)
NoURL == [scheme |-> "", rest |-> <<>>]
\* `${scheme}://${host}${path}` where path is '' or starts with "/"
MakeURL(scheme, host, path) == [scheme |-> scheme, rest |-> Concat(<<host>>, path)]
\* new URL(url).hostname and .pathname of a non-special scheme
Hostname(u) == u.rest[1]
Pathname(u) == IF Len(u.rest) = 1 THEN <<E>> ELSE <<E>> \o Tail(u.rest)

\* CID.parse(x, bases) succeeds on base32 and base36 identifiers only
CanParseCID(tok) == tok.k \in {"cid", "key"} /\ tok.b \in {"base32", "base36"}
\* CID.parse(id, bases).toV1().toString(base36)
ToBase36(tok) == [tok EXCEPT !.b = "base36"]

(***************************************************************************)
(* The IPFS client: content paths                                          *)
(***************************************************************************)
Fail == [ok |-> FALSE, node |-> NoNode]
Ok(node) == [ok |-> TRUE, node |-> node]

RECURSIVE Walk(_, _)
Walk(node, names) ==
  IF names = <<>> THEN Ok(node)
  ELSE IF node.t = "dir" /\ Head(names) \in DOMAIN node.ents
       THEN Walk(node.ents[Head(names)], Tail(names))
       ELSE Fail

\* resolution of "/ipfs/<cid>/a/b" or "<cid>/a/b" to a node (exporter, ls,
\* cat, dag.resolve): empty components are dropped, the first must be the
\* identifier of content
StripIpfs(path) ==
  IF Len(path) >= 3 /\ path[1] = E /\ path[2] = S("ipfs")
  THEN SubSeq(path, 3, Len(path)) ELSE path
WalkFrom(names) ==
  IF names # <<>> /\ Head(names).k = "cid"
  THEN Walk(Head(names).c, Tail(names))
  ELSE Fail
ResolveContent(path) == WalkFrom(NonEmpty(StripIpfs(path)))

\* ipfs.ls(path): the names of the entries; the caller appends "/" to the
\* name of a directory
lsFiles(node) ==
  { IF node.ents[n].t = "dir" THEN <<n, E>> ELSE <<n>> : n \in DOMAIN node.ents }

\* ipfs.cat(path, { offset, length }): bytes offset .. offset+length-1
catRange(data, offset, length) == SubSeq(data, offset + 1, offset + length)

(***************************************************************************)
(* The IPFS client: the mutable file system                                *)
(***************************************************************************)
\* files.write at offset 0: with truncate the file becomes the data written
WriteBytesKeep(old, data, truncate) == data \o SubSeq(old, Len(data) + 1, Len(old))
WriteBytes(old, data, truncate) ==
  IF truncate THEN data ELSE data \o SubSeq(old, Len(data) + 1, Len(old))

\* the entry of a directory under a name, NoNode when there is none
Child(node, name) == IF name \in DOMAIN node.ents THEN node.ents[name] ELSE NoNode
\* the directory with the written subtree under the name
Linked(node, name, sub) ==
  IF sub.ok THEN Ok(Dir(WithEntry(node.ents, name, sub.node))) ELSE Fail

\* files.write(path, data, { parents: true, create: true, truncate }) below node
RECURSIVE WriteAt(_, _, _, _)
WriteAt(node, names, data, truncate) ==
  IF names = <<>>
  THEN IF node.t = "dir" THEN Fail
       ELSE Ok(File(WriteBytes(node.data, data, truncate)))
  ELSE IF node.t = "file" THEN Fail
  ELSE Linked(node, Head(names),
              WriteAt(Child(node, Head(names)), Tail(names), data, truncate))

\* makeTmpDir for the i-th scratch directory
makeTmpDir(i) == <<E, S("ipfs-fetch-dirs"), RandTok(i)>>
\* the names below the scratch directory of an MFS path
Below(names) == SubSeq(names, 3, Len(names))
BelowTmp(path) == Below(NonEmpty(path))

(***************************************************************************)
(* Requests and responses                                                  *)
(***************************************************************************)
NoRange == [present |-> FALSE, eq |-> FALSE, unit |-> "", specs |-> <<>>]
NoBody ==
  [k |-> "none", d |-> <<>>, parts |-> <<>>, u |-> NoURL, ops |-> <<>>,
   c |-> [t |-> "none", data |-> <<>>, ents |-> <<>>], valid |-> TRUE]
BytesBody(d) == [NoBody EXCEPT !.k = "bytes", !.d = d]
FormBody(parts) == [NoBody EXCEPT !.k = "form", !.parts = parts]
UrlBody(u) == [NoBody EXCEPT !.k = "url", !.u = u]
\* a JSON-Patch document
PatchBody(ops) == [NoBody EXCEPT !.k = "patch", !.ops = ops]
\* a CAR archive with its roots
CarBody(roots) == [NoBody EXCEPT !.k = "car", !.parts = roots]
\* an encoded linked-data value; valid when the bytes decode under the
\* codec that the Content-Type of the request selects
ValueBody(value, valid) == [NoBody EXCEPT !.k = "value", !.c = value, !.valid = valid]

\* a request: method, URL (scheme, hostname, pathname), the observed query
\* parameters and headers, and the body
Request(method, scheme, host, path) ==
  [method |-> method, scheme |-> scheme, host |-> host, path |-> path,
   key |-> E, format |-> "", noResolve |-> FALSE, filename |-> "",
   accept |-> "", contentType |-> "", range |-> NoRange, body |-> NoBody]
NoReq == Request("", "", E, <<E>>)

NoCR == [s |-> -1, e |-> -1, size |-> -1]
NoOut == [k |-> "none", d |-> <<>>, files |-> {}, u |-> NoURL, c |-> NoNode]
BytesOut(d) == [NoOut EXCEPT !.k = "bytes", !.d = d]
UrlOut(u) == [NoOut EXCEPT !.k = "url", !.u = u]
TextOut(kind) == [NoOut EXCEPT !.k = kind]

TextPlain == "text/plain; charset=utf-8"
\* DEFAULT_HEADERS
Response(status) ==
  [status |-> status, ctype |-> TextPlain, clen |-> -1, crange |-> NoCR,
   aranges |-> "", loc |-> NoURL, body |-> NoOut]
NoResp == [Response(0) EXCEPT !.ctype = ""]
\* DEFAULT_ON_NOT_FOUND
onNotFound == [Response(405) EXCEPT !.ctype = "", !.body = TextOut("Method Not Supported")]
\* a handler that throws: the routed fetch answers 500 with the stack
Thrown == [Response(500) EXCEPT !.body = TextOut("stack")]
\* a handler that returns undefined
Undefined == [Response(0) EXCEPT !.ctype = "", !.body = TextOut("undefined")]

\* urlToIPFSPath and urlToIPNSPath: `/ipfs/${hostname}${pathname}`
urlToIPFSPath(r) == Concat(<<E, S("ipfs"), r.host>>, r.path)
urlToIPNSPath(r) == Concat(<<E, S("ipns"), r.host>>, r.path)

\* mime.getType of the last component of a name, with the charset suffix
\* that getMimeType adds to text types
HtmlNames == {"index.html"}
getMimeType(path) ==
  IF Last(path).k = "s" /\ Last(path).s \in HtmlNames
  THEN "text/html; charset=utf-8" ELSE TextPlain

\* cidFromPath
Components(path) ==
  IF Len(path) >= 3 /\ path[1] = E /\ path[2] = S("ipfs") THEN Tail(Tail(path))
  ELSE IF StartsWithSlash(path) THEN Tail(path) ELSE path
SplitRoot(path, components) ==
  IF components # <<>> /\ CanParseCID(components[1])
  THEN [rootCID |-> components[1], hasRoot |-> TRUE, relativePath |-> SliceJoin(components, 1)]
  ELSE [rootCID |-> E, hasRoot |-> FALSE, relativePath |-> path]
cidFromPath(path) == SplitRoot(path, Components(path))

(***************************************************************************)
(* Range serving (serveFile with the range-parser library)                 *)
(***************************************************************************)
NaN == -1   \* parseInt of a missing or non-numeric bound

\* one range-spec of the header against the size: the range it denotes, or
\* an invalid one (start > end) when it is malformed or unsatisfiable
RangeOf(size, spec) ==
  LET start0 == IF spec.s = NaN THEN (IF spec.e = NaN THEN NaN ELSE size - spec.e) ELSE spec.s
      end0 == IF spec.s = NaN \/ spec.e = NaN THEN size - 1 ELSE spec.e
      end1 == IF end0 > size - 1 THEN size - 1 ELSE end0
      bad == (spec.s = NaN /\ spec.e = NaN) \/ start0 > end1 \/ start0 < 0
  IN  [start |-> start0, end |-> end1, valid |-> ~bad]

ValidRanges(size, specs) ==
  LET all == [i \in DOMAIN specs |-> RangeOf(size, specs[i])]
      valid == SelectSeq(all, LAMBDA r : r.valid)
  IN  [i \in DOMAIN valid |-> [start |-> valid[i].start, end |-> valid[i].end]]

\* parseRange(size, str): -2 malformed, -1 unsatisfiable, else the ranges
\* with their unit
parseRange(size, hdr) ==
  IF ~hdr.eq THEN [code |-> -2, type |-> "", ranges |-> <<>>]
  ELSE LET rs == ValidRanges(size, hdr.specs)
       IN  IF rs = <<>> THEN [code |-> -1, type |-> "", ranges |-> <<>>]
           ELSE [code |-> 0, type |-> hdr.unit, ranges |-> rs]

\* length = end - start + 1
RangeLengthShort(start, end) == end - start
RangeLength(start, end) == end - start + 1

\* the condition on which serveFile answers 206
\* (ranges && ranges.length && ranges.type === 'bytes')
TakesAnyUnit(parsed) == parsed.code = 0 /\ Len(parsed.ranges) > 0
TakesRange(parsed) == parsed.code = 0 /\ Len(parsed.ranges) > 0 /\ parsed.type = "bytes"

\* searchParams.get('filename') || path
MimeName(path, r) == IF r.filename # "" THEN <<S(r.filename)>> ELSE path
\* ipfs.cat of a file; of a directory the stream fails
CatBody(node, start, length) ==
  IF node.t = "file" THEN BytesOut(catRange(node.data, start, length))
  ELSE TextOut("stream error")
FileHeaders(mime) == [Response(200) EXCEPT !.aranges = "bytes", !.ctype = mime]

servePartial(node, mime, first, length) ==
  [FileHeaders(mime) EXCEPT !.status = 206, !.clen = length,
                            !.crange = [s |-> first.start, e |-> first.end,
                                        size |-> Len(node.data)],
                            !.body = CatBody(node, first.start, length)]
serveWhole(node, mime) ==
  [FileHeaders(mime) EXCEPT !.clen = Len(node.data),
                            !.body = CatBody(node, 0, Len(node.data))]
serveRanged(node, mime, isRanged, parsed) ==
  IF isRanged /\ TakesRange(parsed)
  THEN servePartial(node, mime, parsed.ranges[1],
                    RangeLength(parsed.ranges[1].start, parsed.ranges[1].end))
  ELSE serveWhole(node, mime)
serveStat(path, r, file) ==
  IF ~file.ok THEN Thrown
  ELSE serveRanged(file.node, getMimeType(MimeName(path, r)), r.range.present,
                   parseRange(Len(file.node.data), r.range))

\* serveFile(path, searchParams, reqHeaders, headers, signal)
serveFile(path, r) == serveStat(path, r, ResolveContent(path))

\* serveGet(url, ipfsPath, searchParams, reqHeaders, signal)
WantsRaw(expectedType) == expectedType \in {"raw", "application/vnd.ipld.raw"}
WantsCar(expectedType) == expectedType \in {"car", "application/vnd.ipld.car"}
IndexName == <<S("index.html")>>

\* !searchParams.has('noResolve')
ResolvesIndex(r) == ~r.noResolve

Listing(ctype, kind, files) ==
  [Response(200) EXCEPT !.ctype = ctype, !.body = [NoOut EXCEPT !.k = kind, !.files = files]]
Block(ctype, kind, stat) ==
  IF stat.ok
  THEN [Response(200) EXCEPT !.ctype = ctype, !.body = [NoOut EXCEPT !.k = kind, !.c = stat.node]]
  ELSE Thrown

serveDirectory(ipfsPath, r, files) ==
  IF IndexName \in files /\ ResolvesIndex(r)
  THEN serveFile(posixJoin(<<ipfsPath, IndexName>>), r)
  ELSE IF r.accept = "text/html"
  THEN Listing("text/html; charset=utf-8", "html", files)
  ELSE Listing("application/json; charset=utf-8", "json", files)

serveByType(ipfsPath, r, expectedType, stat) ==
  IF WantsRaw(expectedType) THEN Block("application/vnd.ipld.raw", "raw", stat)
  ELSE IF WantsCar(expectedType) THEN Block("application/vnd.ipld.car", "car", stat)
  ELSE IF ~stat.ok THEN Thrown
  ELSE IF stat.node.t = "dir" THEN serveDirectory(ipfsPath, r, lsFiles(stat.node))
  ELSE serveFile(ipfsPath, r)

serveGet(ipfsPath, r) ==
  serveByType(ipfsPath, r, IF r.format # "" THEN r.format ELSE r.accept,
              ResolveContent(ipfsPath))

(***************************************************************************)
(* The IPFS client: keys and names.  A client state st is the record of    *)
(* the variables mfs, keys, records and nextKey.                           *)
(***************************************************************************)
St ==
  [mfs |-> mfs, keys |-> keys, records |-> records, nextKey |-> nextKey,
   dag |-> dag, bus |-> bus]

\* keys.find(test): the index in key.list() of the first key whose test
\* is true, or 0; tests[j] is the outcome of the test on the j-th key
Find(tests) ==
  IF \E j \in DOMAIN tests : tests[j]
  THEN CHOOSE j \in DOMAIN tests : tests[j] /\ \A h \in 1..(j - 1) : ~tests[h]
  ELSE 0
\* the first key of that name
FindName(ks, name) == Find([j \in DOMAIN ks |-> ks[j].name = name])

\* ipfs.key.gen(name): names are unique and non-empty; "self" is the
\* node's own key
CanGen(st, name) ==
  /\ name # E
  /\ name # S("self")
  /\ FindName(st.keys, name) = 0
keyGenPublished(st, name) ==
  [st EXCEPT !.keys = Append(@, [name |-> name, id |-> KeyTok(st.nextKey + 1, "base36")]),
             !.nextKey = @ + 1,
             !.records = [i \in 1..(st.nextKey + 1) |->
                            IF i \in DOMAIN st.records THEN st.records[i]
                            ELSE [seq |-> 1, value |-> <<E, S("ipfs"), CidTok(EmptyDir), E>>]]]
keyGen(st, name) ==
  [st EXCEPT !.keys = Append(@, [name |-> name, id |-> KeyTok(st.nextKey + 1, "base36")]),
             !.nextKey = @ + 1,
             !.records = [i \in 1..(st.nextKey + 1) |->
                            IF i \in DOMAIN st.records THEN st.records[i]
                            ELSE [seq |-> 0, value |-> <<>>]]]

\* ipfs.key.rm(name)
CanRm(st, name) ==
  name # S("self") /\ FindName(st.keys, name) # 0
keyRm(st, name) ==
  LET i == FindName(st.keys, name)
  IN  [st EXCEPT !.keys = SubSeq(@, 1, i - 1) \o SubSeq(@, i + 1, Len(@))]

\* ipfs.resolve(path): "/ipfs/..." resolves to the content it names,
\* "/ipns/<key id>/..." through the record of the key
RECURSIVE ipfsResolve(_, _, _)
ResolveNames(st, path, names, fuel) ==
  IF Len(names) < 2 THEN Fail
  ELSE IF names[1] = S("ipfs") THEN ResolveContent(path)
  ELSE IF names[1] = S("ipns") /\ names[2].k = "key" /\ names[2].n \in DOMAIN st.records
          /\ st.records[names[2].n].seq > 0 /\ fuel > 0
  THEN ipfsResolve(st, st.records[names[2].n].value \o SubSeq(names, 3, Len(names)), fuel - 1)
  ELSE Fail
ipfsResolve(st, path, fuel) == ResolveNames(st, path, NonEmpty(path), fuel)

ResolveDepth == 2
\* the string ipfs.resolve returns: "/ipfs/<cid>"
ResolvedPath(node) == <<E, S("ipfs"), CidTok(node)>>

\* ipfs.name.publish(value, { key }): the value must resolve; the record of
\* the key is replaced.  The result names the key by its base36 identifier.
CanPublish(st, value, keyName) ==
  /\ FindName(st.keys, keyName) # 0
  /\ ipfsResolve(st, value, ResolveDepth).ok
PublishedKey(st, keyName) ==
  st.keys[FindName(st.keys, keyName)].id
PublishTwice(st, value, id) ==
  [st EXCEPT !.records[id.n] = [seq |-> @.seq + 2, value |-> value]]
PublishAs(st, value, id) ==
  [st EXCEPT !.records[id.n] = [seq |-> @.seq + 1, value |-> value]]
namePublish(st, value, keyName) == PublishAs(st, value, PublishedKey(st, keyName))

(***************************************************************************)
(* Naming helpers of the adapter                                           *)
(***************************************************************************)
\* mainSegment.includes('.')
DottedNames == {"index.html", "a.txt"}
HasDot(tok) == tok.k = "s" /\ tok.s \in DottedNames

\* hasKey(keyName): the first key whose name is keyName or whose identifier
\* in base36 is keyName; 0 when there is none
hasKeyByNameOnly(st, keyName) == FindName(st.keys, keyName)
hasKey(st, keyName) ==
  Find([j \in DOMAIN st.keys |->
          st.keys[j].name = keyName
          \/ (CanParseCID(st.keys[j].id) /\ ToBase36(st.keys[j].id) = keyName)])

\* keyToURL({ id })
keyToURL(key) == MakeURL("ipns", ToBase36(key.id), <<E, E>>)

\* which component of the split path resolveIPNS takes as the name
\* (segments[1], 0-based)
MainSegmentIndex == 2

\* keyForName.id + '/' when a key has the name and the name has no dot
MainSegment(st, seg, byName) ==
  IF ~HasDot(seg) /\ byName # 0 THEN <<st.keys[byName].id, E>> ELSE <<seg>>
JoinResolved(segments, resolved) ==
  IF resolved.ok
  THEN [ok |-> TRUE,
        path |-> JoinSlash(<<ResolvedPath(resolved.node),
                             SubSeq(segments, MainSegmentIndex + 1, Len(segments))>>)]
  ELSE [ok |-> FALSE, path |-> <<>>]
ResolveSegments(st, segments) ==
  IF Len(segments) < MainSegmentIndex THEN [ok |-> FALSE, path |-> <<>>]
  ELSE JoinResolved(segments,
         ipfsResolve(st,
           Concat(<<E, S("ipns")>>,
                  ensureEndingSlash(ensureStartingSlash(
                    MainSegment(st, segments[MainSegmentIndex],
                                FindName(st.keys, segments[MainSegmentIndex]))))),
           ResolveDepth))

\* resolveIPNS(path, signal)
resolveIPNS(st, path) == ResolveSegments(st, SplitSlashes(ensureStartingSlash(path)))

(***************************************************************************)
(* The mutable tree builder                                                *)
(***************************************************************************)
\* the parts of a form that uploadData writes:
\* fieldName === 'file' and a non-empty file name
WrittenParts(parts) ==
  SelectSeq(parts, LAMBDA part : part.field = "file" /\ part.name # E)

\* the files.write calls of the form branch are all started before any is
\* awaited (Promise.all): the client applies them in the order in which they
\* complete, which is any order of the parts written
CompletionOrders(body) ==
  IF body.k = "form"
  THEN {[body EXCEPT !.parts = [i \in DOMAIN WrittenParts(body.parts) |->
                                  WrittenParts(body.parts)[order[i]]]] :
          order \in Permutations(DOMAIN WrittenParts(body.parts))}
  ELSE {body}
\* the files.write calls of the form branch, in the order they complete
RECURSIVE WriteParts(_, _, _, _)
WritePartsNext(scratch, tmpDir, relativePath, parts, w) ==
  IF w.ok THEN WriteParts(w.node, tmpDir, relativePath, Tail(parts))
  ELSE [ok |-> FALSE, node |-> scratch]
WriteParts(scratch, tmpDir, relativePath, parts) ==
  IF parts = <<>> THEN Ok(scratch)
  ELSE WritePartsNext(scratch, tmpDir, relativePath, parts,
                      WriteAt(scratch,
                              BelowTmp(posixJoin(<<tmpDir, relativePath, <<Head(parts).name>>>>)),
                              Head(parts).data, TRUE))

\* a failed files.write leaves the scratch directory as it was
WriteOne(scratch0, one) == IF one.ok THEN one ELSE [ok |-> FALSE, node |-> scratch0]

\* files.cp(rootCID, tmpDir): the scratch directory starts as the old root
CopyRootNever(cf) == NoNode
CopyRoot(cf) == IF cf.hasRoot THEN cf.rootCID.c ELSE NoNode

\* the scratch directory is in the mutable file system once it has a node
WithScratch(st, node) ==
  IF node.t # "none" THEN [st EXCEPT !.mfs = Append(@, node)] ELSE st

\* the writes of uploadData into the scratch directory
uploadWrites(scratch0, tmpDir, relativePath, body, isFormData) ==
  IF isFormData
  THEN WriteParts(scratch0, tmpDir, relativePath, WrittenParts(body.parts))
  ELSE WriteOne(scratch0,
                WriteAt(scratch0,
                        BelowTmp(posixJoin(<<tmpDir,
                                             ensureStartingSlash(stripEndingSlash(relativePath))>>)),
                        body.d, TRUE))

\* files.stat(tmpDir) and the URL that uploadData returns
uploadStat(st, w, endPath) ==
  IF ~w.ok \/ w.node.t = "none"
  THEN [ok |-> FALSE, st |-> WithScratch(st, w.node), url |-> NoURL]
  ELSE [ok |-> TRUE, st |-> WithScratch(st, w.node),
        url |-> MakeURL("ipfs", CidTok(w.node), ensureStartingSlash(endPath))]

uploadFrom(st, tmpDir, cf, body, isFormData) ==
  IF cf.hasRoot /\ cf.rootCID.k # "cid"
  THEN [ok |-> FALSE, st |-> st, url |-> NoURL]
  ELSE uploadStat(st,
                  uploadWrites(CopyRoot(cf), tmpDir, cf.relativePath, body, isFormData),
                  IF isFormData THEN cf.relativePath ELSE stripEndingSlash(cf.relativePath))

\* uploadData(ipfsPath, request, isFormData, signal): the new client state
\* and the URL of what was written
uploadData(st, ipfsPath, body, isFormData) ==
  uploadFrom(st, makeTmpDir(Len(st.mfs) + 1), cidFromPath(ipfsPath), body, isFormData)

\* files.rm(path, { recursive: true }) below node; the path must exist
RemoveNothing(node, names) == Ok(node)
RECURSIVE RemoveAt(_, _)
RemoveAt(node, names) ==
  IF names = <<>> THEN Ok(NoNode)
  ELSE IF node.t # "dir" \/ Head(names) \notin DOMAIN node.ents THEN Fail
  ELSE IF Len(names) = 1 THEN Ok(Dir(WithoutEntry(node.ents, Head(names))))
  ELSE Linked(node, Head(names), RemoveAt(node.ents[Head(names)], Tail(names)))

\* files.stat(tmpDir) and the response of deleteData; the handler returns
\* statusCode, not status, and the response takes the default status 200
Deleted(url) == [Response(200) EXCEPT !.loc = url, !.body = UrlOut(url)]
deleteStat(st, scratch0, rm) ==
  IF ~rm.ok THEN [resp |-> Thrown, st |-> WithScratch(st, scratch0)]
  ELSE IF rm.node.t = "none" THEN [resp |-> Thrown, st |-> st]
  ELSE [resp |-> Deleted(MakeURL("ipfs", CidTok(rm.node), <<E, E>>)),
        st |-> WithScratch(st, rm.node)]
deleteFrom(st, tmpDir, cf, scratch0) ==
  IF cf.hasRoot /\ cf.rootCID.k # "cid" THEN [resp |-> Thrown, st |-> st]
  ELSE IF scratch0.t = "none" THEN [resp |-> Thrown, st |-> st]
  ELSE deleteStat(st, scratch0,
                  RemoveAt(scratch0, BelowTmp(posixJoin(<<tmpDir, cf.relativePath>>))))
deleteCopy(st, tmpDir, cf) == deleteFrom(st, tmpDir, cf, CopyRoot(cf))
\* deleteData(ipfsPath, signal)
deleteData(st, ipfsPath) ==
  deleteCopy(st, makeTmpDir(Len(st.mfs) + 1), cidFromPath(ipfsPath))

\* the response to a write: 201 with the URL in Location and in the body
Created(url) == [Response(201) EXCEPT !.loc = url, !.body = UrlOut(url)]

(***************************************************************************)
(* Handlers: each yields the response and the new client state             *)
(***************************************************************************)
Result(response, st) == [resp |-> response, st |-> st]

\* router.put('ipfs://*/**')
Uploaded(up) == IF up.ok THEN Result(Created(up.url), up.st) ELSE Result(Thrown, up.st)
putIPFS(st, r) == Uploaded(uploadData(st, urlToIPFSPath(r), r.body, r.body.k = "form"))

\* router.post('ipfs://localhost/')
LocalhostDir == <<E, S("ipfs"), CidTok(EmptyDir), S("localhost")>>
\* a block of the client's store: the value and the codec it is stored with
Stored(value, codec) == [node |-> value, codec |-> codec]
\* a CID object as a CAR header carries it: its version and the node it names
Cid(version, node) == [version |-> version, node |-> node]
\* cid.toString(): base58btc for a version-0 CID, base32 for a version-1 CID
CidString(cid) ==
  IF cid.version = 0
  THEN [k |-> "cid", s |-> "", n |-> 0, c |-> cid.node, b |-> "base58btc"]
  ELSE CidTok(cid.node)
\* for await (const { root } of ipfs.dag.import(request.body, importOpts))
Imported(st, roots) ==
  Result([Response(200) EXCEPT
            !.body = [NoOut EXCEPT !.k = "urls",
                      !.files = {MakeURL("ipfs", CidString(roots[i]), <<E, E>>) :
                                   i \in DOMAIN roots}]],
         [st EXCEPT !.dag = @ \cup {Stored(roots[i].node, "dag-pb") : i \in DOMAIN roots}])
\* ipfs.dag.resolve of the URL that uploadData returned
Added(up, resolved) ==
  IF up.ok /\ resolved.ok
  THEN Result(Created(MakeURL("ipfs", CidTok(resolved.node), <<E, E>>)), up.st)
  ELSE Result(Thrown, up.st)
AddedAt(up) == Added(up, ResolveContent(<<E, S("ipfs")>> \o up.url.rest))
postIPFSLocalhost(st, r) ==
  IF r.body.k = "car" THEN Imported(st, r.body.parts)
  ELSE AddedAt(uploadData(st, LocalhostDir, r.body, r.body.k = "form"))

\* updateIPNS(keyName, value, signal)
LocationOfValue(st, value, id) == MakeURL("ipfs", NonEmpty(value)[2], <<E, E>>)
LocationOfKey(st, value, id) == MakeURL("ipns", id, <<E, E>>)
Published(st1, value, finalName) ==
  IF ~CanPublish(st1, value, finalName) THEN Result(Thrown, st1)
  ELSE Result(Created(LocationOfKey(st1, value, PublishedKey(st1, finalName))),
              namePublish(st1, value, finalName))
UpdateKey(st, keyName, value, existing) ==
  IF existing # 0 THEN Published(st, value, st.keys[existing].name)
  ELSE IF ~CanGen(st, keyName) THEN Result(Thrown, st)
  ELSE Published(keyGen(st, keyName), value, keyName)
updateIPNS(st, keyName, value) == UpdateKey(st, keyName, value, hasKey(st, keyName))

\* rawValue.replace(/^ipfs:\/\//, '/ipfs/').replace(/^ipns:\/\//, '/ipns/')
ValueOfBody(body) ==
  IF body.k = "url" /\ body.u.scheme \in {"ipfs", "ipns"}
  THEN <<E, S(body.u.scheme)>> \o body.u.rest
  ELSE <<S("text")>>

\* router.post('ipns://*/')
postIPNS(st, r) == updateIPNS(st, r.host, ValueOfBody(r.body))

\* router.put('ipns://**/**')
\* the path to write: the resolved root of the key and the subpath, or the
\* subpath alone when the key does not resolve
PathToWrite(res, subpath) ==
  IF res.ok THEN Concat(StripIpfs(res.path), <<E>> \o subpath) ELSE subpath
\* publish `/ipfs/${cid}/` of the new root under the key
PublishUpload(keyName, up) ==
  IF ~up.ok THEN Result(Thrown, up.st)
  ELSE updateIPNS(up.st, keyName, <<E, S("ipfs"), up.url.rest[1], E>>)
PutUnder(st, r, keyName, subpath) ==
  IF ~(r.body.k = "form" \/ subpath # <<E>>) THEN Result(Undefined, st)
  ELSE PublishUpload(keyName,
                     uploadData(st, PathToWrite(resolveIPNS(st, <<keyName>>), subpath),
                                r.body, r.body.k = "form"))
SplitKey(st, r, split) == PutUnder(st, r, split[1], SliceJoin(split, 1))
putIPNS(st, r) == SplitKey(st, r, urlToIPNSPath(r))

\* router.get('ipns://localhost/') of the writable adapter
Redirect(st, keyURL) ==
  Result([Response(302) EXCEPT !.loc = keyURL, !.body = UrlOut(keyURL)], st)
KeyFound(st, exists) ==
  IF exists = 0
  THEN Result([Response(404) EXCEPT !.body = TextOut("Key Not Found")], st)
  ELSE Redirect(st, keyToURL(st.keys[exists]))
getKey(st, r) == KeyFound(st, hasKey(st, r.key))

\* router.post('ipns://localhost/')
KeyCreated(st1, keyData) ==
  Result([Response(201) EXCEPT !.ctype = "", !.loc = keyToURL(st1.keys[keyData])], st1)
KeyGenerated(st, key, exists) ==
  IF ~CanGen(st, key) THEN Result(Thrown, st)
  ELSE KeyCreated(keyGen(st, key), hasKey(keyGen(st, key), key))
KeyEnsured(st, key, exists) ==
  IF exists # 0 THEN KeyCreated(st, hasKey(st, key))
  ELSE IF ~CanGen(st, key) THEN Result(Thrown, st)
  ELSE KeyCreated(keyGen(st, key), hasKey(keyGen(st, key), key))
postKey(st, r) == KeyEnsured(st, r.key, hasKey(st, r.key))

\* router.delete('ipns://localhost/')
deleteKey(st, r) ==
  IF CanRm(st, r.key)
  THEN Result([Response(200) EXCEPT !.ctype = ""], keyRm(st, r.key))
  ELSE Result(Thrown, st)

\* router.get('ipld://*/**'): the value is what ipldSystem.resolve returned,
\* which the handler does not await; whether the codec encodes it or throws
\* is the codec's business (encodes)
CborType == "application/vnd.ipld.dag-cbor"
Encoded(ctype, kind) == [Response(200) EXCEPT !.ctype = ctype, !.body = TextOut(kind)]
getIPLD(st, r, encodes) ==
  IF ~encodes THEN Result(Thrown, st)
  ELSE IF r.format = "dag-cbor" \/ r.accept = CborType
  THEN Result(Encoded(CborType, "cbor"), st)
  ELSE Result(Encoded("appliction/json", "json"), st)

\* router.post('ipld://localhost/**')
BadRequest(text) == [Response(400) EXCEPT !.body = TextOut(text)]
JsonTypes == {"application/json", "application/dag-json"}
CborTypes == {"application/vnd.ipld.dag-cbor"}
StoreFormats == {"dag-json", "dag-cbor"}
\* ipfs.dag.put(decoded, { storeCodec }) and the response
dagPutCbor(st, value, storeCodec) ==
  Result(Created(MakeURL("ipld", CidTok(value), <<E, E>>)),
         [st EXCEPT !.dag = @ \cup {Stored(value, "dag-cbor")}])
\* ipfs.dag.put(decoded, { storeCodec })
dagPut(st, value, storeCodec) ==
  Result(Created(MakeURL("ipld", CidTok(value), <<E, E>>)),
         [st EXCEPT !.dag = @ \cup {Stored(value, storeCodec)}])
postIPLD(st, r) ==
  IF r.contentType \notin JsonTypes \cup CborTypes
  THEN Result(BadRequest("Unsupproted content-type, must be dag-cbor, or dag-json"), st)
  ELSE IF ~r.body.valid THEN Result(Thrown, st)
  ELSE IF r.format # "" /\ r.format \notin StoreFormats
  THEN Result(BadRequest("Unsupproted format, must be dag-json or dag-cbor"), st)
  ELSE dagPut(st, r.body.c,
              IF r.format # "" THEN r.format
              ELSE IF r.contentType \in JsonTypes THEN "dag-json" ELSE "dag-cbor")

\* router.post('pubsub://*/'): url is the URL string of the request, so
\* url.hostname is undefined
TopicOf(r) == S("undefined")
postPubsub(st, r) ==
  Result([Response(200) EXCEPT !.ctype = ""],
         [st EXCEPT !.bus = @ \cup {[topic |-> TopicOf(r), payload |-> r.body.d]}])

\* router.get('pubsub://*/')
\* accept && accept.includes('text/event-stream')
WantsEvents(r) == r.accept = "text/event-stream"
EventStream == [Response(200) EXCEPT !.ctype = "text/event-stream", !.body = TextOut("events")]
\* ipfs.pubsub.ls(): { id, topic, subscribed }
TopicInfo == [Response(200) EXCEPT !.ctype = "application/json", !.body = TextOut("info")]
getPubsub(st, r) == Result(IF WantsEvents(r) THEN EventStream ELSE TopicInfo, st)

\* a message of the bus: its sequence number and whether its payload is
\* JSON text
Message(n, json) == [seqno |-> n, json |-> json]
\* the chunks that the handler pushes: "id:<id>\ndata:<eventData>\n\n" and
\* "type:error\ndata:<stack>\n\n"
DataEvent(id, data) == [type |-> "", id |-> id, data |-> data]
ErrorEvent == [type |-> "error", id |-> 0, data |-> "stack"]
\* the formatted data of a message; JSON.parse throws on other text
Decodes(fmt, msg) == fmt # "json" \/ msg.json
Formatted(fmt, msg) ==
  IF fmt = "json" THEN "parsed" ELSE IF fmt = "utf8" THEN "utf8" ELSE "base64"
\* function handler ({ from, data, topicIDs, seqno }): what it pushes
handlerDrops(fmt, msg) ==
  IF Decodes(fmt, msg) THEN <<DataEvent(msg.seqno, Formatted(fmt, msg))>> ELSE <<>>
handler(fmt, msg) ==
  IF Decodes(fmt, msg) THEN <<DataEvent(msg.seqno, Formatted(fmt, msg))>> ELSE <<ErrorEvent>>

\* EventQueue.push(value): ignored once the queue is stopped
pushFront(isStopped, queue, values) == IF isStopped THEN queue ELSE values \o queue
push(isStopped, queue, values) == IF isStopped THEN queue ELSE queue \o values
\* ipfs.pubsub.subscribe(topic, handler), called by the listen function
listen(pending) == Append(pending, "subscribe")
\* the function that listen returns: () => ipfs.pubsub.unsubscribe(topic, handler)
removeNothing(pending) == pending
removeCallback(pending) == Append(pending, "unsubscribe")

\* router.get('ipfs://*/**')
getIPFS(st, r) == Result(serveGet(urlToIPFSPath(r), r), st)

\* router.get('ipns://*/**')
Served(st, r, res) ==
  IF res.ok THEN Result(serveGet(res.path, r), st) ELSE Result(Thrown, st)
getIPNS(st, r) == Served(st, r, resolveIPNS(st, urlToIPNSPath(r)))

\* serveHead(ipfsPath, searchParams, signal)
\* the size that getStat reports for a directory
DirectorySize == 0
StatSize(node) == IF node.t = "dir" THEN DirectorySize ELSE Len(node.data)
HeadHeaders(path, r, finalStat) ==
  IF ~finalStat.ok THEN Thrown
  ELSE [FileHeaders(getMimeType(MimeName(path, r))) EXCEPT !.clen = StatSize(finalStat.node)]
headOf(path, r) == HeadHeaders(path, r, ResolveContent(path))
headDirectory(ipfsPath, r, files) ==
  IF r.noResolve THEN headOf(ipfsPath, r)
  ELSE IF IndexName \in files THEN headOf(posixJoin(<<ipfsPath, IndexName>>), r)
  ELSE Response(200)
headByType(ipfsPath, r, stat) ==
  IF ~stat.ok THEN Thrown
  ELSE IF stat.node.t = "dir" THEN headDirectory(ipfsPath, r, lsFiles(stat.node))
  ELSE headOf(ipfsPath, r)
serveHead(ipfsPath, r) == headByType(ipfsPath, r, ResolveContent(ipfsPath))

\* router.head('ipfs://*/**')
headIPFS(st, r) == Result(serveHead(urlToIPFSPath(r), r), st)
\* router.head('ipns://*/**')
HeadServed(st, r, res) ==
  IF res.ok THEN Result(serveHead(res.path, r), st) ELSE Result(Thrown, st)
headIPNS(st, r) == HeadServed(st, r, resolveIPNS(st, urlToIPNSPath(r)))

\* router.delete('ipfs://*/**')
deleteIPFS(st, r) == deleteData(st, urlToIPFSPath(r))
\* router.delete('ipns://*/**'): the path is made by urlToIPFSPath
DeleteResolved(st, res) == IF res.ok THEN deleteData(st, res.path) ELSE Result(Thrown, st)
deleteIPNS(st, r) == DeleteResolved(st, resolveIPNS(st, urlToIPFSPath(r)))

(***************************************************************************)
(* The router: the first registered route that matches, in the order of    *)
(* registration; no match is answered by onNotFound                        *)
(***************************************************************************)
SPECIAL_HOSTNAME == S("localhost")
IsRoot(path) == NonEmpty(path) = <<>>

RouteTable(r, w) ==
  LET special == r.host = SPECIAL_HOSTNAME
      root == IsRoot(r.path)
  IN  CASE r.scheme = "ipns" /\ r.method = "GET" /\ w /\ special /\ root -> "getKey"
        [] r.scheme = "ipns" /\ r.method = "POST" /\ w /\ special /\ root -> "postKey"
        [] r.scheme = "ipns" /\ r.method = "DELETE" /\ w /\ special /\ root -> "deleteKey"
        [] r.scheme = "ipfs" /\ r.method = "POST" /\ w /\ special /\ root -> "postIPFSLocalhost"
        [] r.scheme = "ipfs" /\ r.method = "PUT" /\ w /\ special /\ root -> "onNotFound"
        [] r.scheme = "ipfs" /\ r.method = "PUT" /\ w /\ ~(special /\ root) -> "putIPFS"
        [] r.scheme = "ipns" /\ r.method = "PUT" /\ w /\ special /\ root -> "onNotFound"
        [] r.scheme = "ipns" /\ r.method = "PUT" /\ w /\ ~(special /\ root) -> "putIPNS"
        [] r.scheme = "ipns" /\ r.method = "POST" /\ w /\ ~special /\ root -> "postIPNS"
        [] r.scheme = "ipfs" /\ r.method = "DELETE" /\ w -> "deleteIPFS"
        [] r.scheme = "ipns" /\ r.method = "DELETE" /\ w /\ ~(special /\ root) -> "deleteIPNS"
        [] r.scheme = "ipfs" /\ r.method = "HEAD" /\ special -> "onNotFound"
        [] r.scheme = "ipfs" /\ r.method = "GET" /\ special -> "onNotFound"
        [] r.scheme = "ipns" /\ r.method = "HEAD" /\ special /\ root -> "onNotFound"
        [] r.scheme = "ipns" /\ r.method = "GET" /\ ~w /\ special /\ root -> "onNotFound"
        [] r.scheme = "ipfs" /\ r.method = "HEAD" /\ ~special -> "headIPFS"
        [] r.scheme = "ipns" /\ r.method = "HEAD" /\ ~(special /\ root) -> "headIPNS"
        [] r.scheme = "ipfs" /\ r.method = "GET" /\ ~special -> "getIPFS"
        [] r.scheme = "ipns" /\ r.method = "GET" /\ ~(special /\ root) -> "getIPNS"
        [] r.scheme = "ipld" /\ r.method = "GET" -> "getIPLD"
        [] r.scheme = "ipld" /\ r.method = "POST" /\ w /\ special -> "postIPLD"
        [] r.scheme = "pubsub" /\ r.method = "GET" /\ w /\ root -> "getPubsub"
        [] r.scheme = "pubsub" /\ r.method = "POST" /\ w /\ root -> "postPubsub"
        [] OTHER -> "onNotFound"
\* if (writable) { ... }: the routes that write are registered only then
RouteUngated(r, w) == RouteTable(r, TRUE)
Route(r, w) == RouteTable(r, w)

(***************************************************************************)
(* The requests of the model                                               *)
(***************************************************************************)
B1 == <<7>>
B3 == <<8, 9, 8>>
IndexHtml == S("index.html")
ATxt == S("a.txt")
DName == S("d")
\* a site: /index.html, /d/a.txt
R1 == Dir(WithEntry(WithEntry(<<>>, IndexHtml, File(<<1, 2>>)),
                    DName, Dir(WithEntry(<<>>, ATxt, File(<<3, 4>>)))))
\* a form: two files, a part under another field name, a part without a
\* file name
FormPart(field, name, data) == [field |-> field, name |-> name, data |-> data]
Form1 == <<FormPart("file", ATxt, B1), FormPart("file", S("b"), B3),
           FormPart("other", S("c"), B1), FormPart("file", E, B1)>>
\* a form whose two parts carry the same file name
Form2 == <<FormPart("file", ATxt, B1), FormPart("file", ATxt, B3)>>

LatestRoots == IF mfs = <<>> THEN {} ELSE {CidTok(Last(mfs))}
ContentHosts == {CidTok(EmptyDir), CidTok(R1)} \cup LatestRoots
WriteHosts == {CidTok(R1)} \cup LatestRoots
KeyNames == {S("k"), S("ipns")}
\* the identifiers of the keys the client has had, and one of a foreign key
KeyIds == {KeyTok(i, "base36") : i \in 0..nextKey}
NameHosts == KeyIds \cup {S("k")}

GetPaths == {<<E, E>>, <<E, ATxt>>, <<E, DName, ATxt>>}
GetOpts == {[nr |-> FALSE, f |-> "", a |-> ""], [nr |-> TRUE, f |-> "", a |-> ""],
            [nr |-> FALSE, f |-> "car", a |-> ""], [nr |-> FALSE, f |-> "", a |-> "text/html"],
            [nr |-> TRUE, f |-> "", a |-> "text/html"]}
WithOpts(r, o) == [r EXCEPT !.noResolve = o.nr, !.format = o.f, !.accept = o.a]
WithBody(r, body) == [r EXCEPT !.body = body]
WithKey(r, key) == [r EXCEPT !.key = key]

GetIPFSRequests ==
  {WithOpts(Request("GET", "ipfs", h, p), o) : h \in ContentHosts, p \in GetPaths, o \in GetOpts}
  \cup {Request("GET", "ipfs", Hostname(w.url), Pathname(w.url)) : w \in written}
GetIPNSRequests ==
  {WithOpts(Request("GET", "ipns", h, p), o) :
     h \in NameHosts, p \in {<<E, E>>, <<E, DName, ATxt>>},
     o \in {o \in GetOpts : o.f = "" /\ o.a = ""}}
HeadOpts == {o \in GetOpts : o.f = "" /\ o.a = ""}
HeadIPFSRequests ==
  {WithOpts(Request("HEAD", "ipfs", h, p), o) :
     h \in ContentHosts, p \in GetPaths \cup {<<E, DName, E>>},
     o \in HeadOpts}
HeadIPNSRequests ==
  {WithOpts(Request("HEAD", "ipns", h, <<E, E>>), o) : h \in NameHosts, o \in HeadOpts}
PutIPFSRequests ==
  {WithBody(Request("PUT", "ipfs", h, p), BytesBody(b)) :
     h \in WriteHosts, p \in {<<E, ATxt>>, <<E, DName, ATxt>>}, b \in {B1, B3}}
  \cup {WithBody(Request("PUT", "ipfs", h, p), FormBody(Form1)) :
          h \in WriteHosts, p \in {<<E, E>>, <<E, DName, E>>}}
  \cup {WithBody(Request("PUT", "ipfs", h, <<E, E>>), FormBody(Form2)) : h \in WriteHosts}
  \cup {WithBody(Request("PUT", "ipfs", SPECIAL_HOSTNAME, <<E, ATxt>>), BytesBody(B1))}
PostIPFSRequests ==
  {WithBody(Request("POST", "ipfs", SPECIAL_HOSTNAME, <<E, E>>), b) :
     b \in {BytesBody(B1), FormBody(Form1), CarBody(<<Cid(1, R1)>>), CarBody(<<Cid(0, R1)>>)}}
KeyRequests(method) ==
  {WithKey(Request(method, "ipns", SPECIAL_HOSTNAME, <<E, E>>), key) :
     key \in KeyNames \cup KeyIds \cup {E, S("self")}}
PostIPNSRequests ==
  {WithBody(Request("POST", "ipns", h, <<E, E>>), UrlBody(MakeURL("ipfs", c, <<E, E>>))) :
     h \in NameHosts, c \in WriteHosts}
PutIPNSRequests ==
  {WithBody(Request("PUT", "ipns", h, <<E, ATxt>>), BytesBody(B1)) : h \in NameHosts}
  \cup {WithBody(Request("PUT", "ipns", h, <<E, E>>), FormBody(Form1)) : h \in NameHosts}
  \cup {WithBody(Request("PUT", "ipns", SPECIAL_HOSTNAME, <<E, ATxt>>), BytesBody(B1))}
DeletePaths ==
  {<<E, E>>, <<E, ATxt>>, <<E, IndexHtml>>, <<E, DName>>, <<E, DName, E>>, <<E, DName, ATxt>>}
DeleteIPFSRequests ==
  {Request("DELETE", "ipfs", h, p) : h \in WriteHosts \cup {CidTok(EmptyDir)}, p \in DeletePaths}
DeleteIPNSRequests ==
  {Request("DELETE", "ipns", h, p) : h \in NameHosts, p \in {<<E, E>>, <<E, ATxt>>, <<E, IndexHtml>>}}
\* linked data: a map from names to lists of strings; the strings are
\* numbered ("world" is 1, "cruel" is 2)
List(items) == [t |-> "list", data |-> items, ents |-> <<>>]
Str(i) == [t |-> "str", data |-> <<i>>, ents |-> <<>>]
Map(e) == [t |-> "map", data |-> <<>>, ents |-> e]
Hello == S("hello")
Goodbye == S("goodbye")
\* { hello: ['world'] }
HelloWorld == Map(WithEntry(<<>>, Hello, List(<<1>>)))
\* one operation of a JSON-Patch document: op, path (name and index in the
\* list, -1 for the member itself), from and value
PatchOp(op, name, idx, from, value) ==
  [op |-> op, name |-> name, idx |-> idx, from |-> from, value |-> value]
PatchDocs ==
  {<<PatchOp("add", Hello, 0, E, Str(2)), PatchOp("move", Goodbye, -1, Hello, NoNode)>>,
   <<PatchOp("copy", Goodbye, -1, Hello, NoNode), PatchOp("remove", Hello, 0, E, NoNode)>>,
   <<PatchOp("replace", Hello, -1, E, List(<<2, 1>>))>>,
   <<PatchOp("remove", Hello, -1, E, NoNode)>>}
PatchRequests ==
  {WithBody(Request("PATCH", "ipld", CidTok(HelloWorld), <<E, E>>), PatchBody(ops)) :
     ops \in PatchDocs}
PostIPLDRequests ==
  {[WithBody(Request("POST", "ipld", SPECIAL_HOSTNAME, <<E, E>>), ValueBody(HelloWorld, valid))
      EXCEPT !.contentType = ct, !.format = f] :
     valid \in BOOLEAN, ct \in {"application/json", "application/dag-json", "application/vnd.ipld.dag-cbor",
            "text/plain"},
     f \in {"", "dag-cbor", "dag-json", "raw"}}
Topic == S("testing")
PostPubsubRequests ==
  {WithBody(Request("POST", "pubsub", Topic, <<E, E>>), BytesBody(b)) : b \in {B1, B3}}
GetPubsubRequests ==
  {[Request("GET", "pubsub", Topic, <<E, E>>) EXCEPT !.accept = a, !.format = f] :
     a \in {"text/event-stream", ""}, f \in {"", "json", "utf8"}}
OtherRequests ==
  {WithBody(Request("PUT", "ipfs", SPECIAL_HOSTNAME, <<E, E>>), BytesBody(B1)),
   WithBody(Request("PUT", "ipns", SPECIAL_HOSTNAME, <<E, E>>), BytesBody(B1)),
   Request("GET", "ipfs", SPECIAL_HOSTNAME, <<E, E>>)}

(***************************************************************************)
(* The state machine                                                       *)
(***************************************************************************)
\* client operations that changed the client so far: scratch directories
\* made, keys generated, keys removed, records published
RECURSIVE SumSeq(_, _)
SumSeq(recs, i) == IF i = 0 THEN 0 ELSE recs[i].seq + SumSeq(recs, i - 1)
OpsUsed(st) ==
  Len(st.mfs) + (st.nextKey - 1) + (st.nextKey - Len(st.keys)) + SumSeq(st.records, st.nextKey)
  + Cardinality(st.dag) + Cardinality(st.bus)

\* a call to the client; signal: the options carry the signal of the request
Call(cap, signal) == [cap |-> cap, signal |-> signal, caught |-> FALSE]
\* the calls are made inside a try block whose catch goes on
Caught(list) == [i \in DOMAIN list |-> [list[i] EXCEPT !.caught = TRUE]]
\* getStat(path, signal)
getStatCalls(signal) == <<Call("exporter", signal)>>
\* resolveIPNS(path, signal)
resolveIPNSCalls(signal) == <<Call("key.list", signal), Call("resolve", signal)>>
\* hasKey(keyName, signal), genKey(keyName, signal)
hasKeyCalls(signal) == <<Call("key.list", signal)>>
genKeyCalls(signal) == <<Call("key.gen", signal)>>
\* updateIPNS(keyName, value, signal): hasKey(keyName) is called without it
updateIPNSCalls(signal) ==
  hasKeyCalls(FALSE) \o genKeyCalls(signal) \o <<Call("name.publish", signal)>>
\* uploadData(ipfsPath, response, isFormData, signal)
uploadDataCalls(signal) ==
  <<Call("files.cp", signal), Call("files.write", signal), Call("files.stat", signal)>>
\* deleteData(ipfsPath, signal)
deleteDataCalls(signal) ==
  <<Call("files.cp", signal), Call("files.rm", signal), Call("files.stat", signal)>>
\* serveFile(path, searchParams, reqHeaders, headers, signal): getStat(path)
serveFileCalls(signal) == getStatCalls(FALSE) \o <<Call("cat", signal)>>
\* serveGet on a directory: getStat(ipfsPath), the listing inside try, serveFile
serveGetCalls(signal) ==
  getStatCalls(FALSE) \o Caught(<<Call("ls", signal)>>) \o serveFileCalls(signal)
\* serveHead on a directory with an index: getStat(ipfsPath), ls, getStat(ipfsPath, signal)
serveHeadCalls(signal) ==
  getStatCalls(FALSE) \o <<Call("ls", signal)>> \o getStatCalls(signal)
\* the handlers of the routes, each on its longest path
Handlers ==
  [getIPLD |-> <<Call("dag.get", FALSE)>>,
   postIPLD |-> <<Call("dag.put", TRUE)>>,
   getPubsubEvents |-> <<Call("pubsub.subscribe", FALSE)>>,
   getPubsubInfo |-> <<Call("id", FALSE), Call("pubsub.ls", FALSE)>>,
   postPubsub |-> <<Call("pubsub.publish", TRUE)>>,
   getKey |-> hasKeyCalls(TRUE),
   postKey |-> hasKeyCalls(TRUE) \o genKeyCalls(TRUE) \o hasKeyCalls(TRUE),
   deleteKey |-> <<Call("key.rm", TRUE)>>,
   postIPFSCar |-> <<Call("dag.import", FALSE)>>,
   postIPFSLocalhost |-> uploadDataCalls(TRUE) \o <<Call("dag.resolve", FALSE)>>,
   putIPFS |-> uploadDataCalls(TRUE),
   putIPNS |-> Caught(resolveIPNSCalls(FALSE)) \o uploadDataCalls(TRUE) \o updateIPNSCalls(FALSE),
   postIPNS |-> updateIPNSCalls(TRUE),
   deleteIPFS |-> deleteDataCalls(TRUE),
   deleteIPNS |-> resolveIPNSCalls(TRUE) \o deleteDataCalls(TRUE),
   headIPFS |-> serveHeadCalls(TRUE),
   headIPNS |-> resolveIPNSCalls(TRUE) \o serveHeadCalls(TRUE),
   getIPFSRaw |-> <<Call("block.get", TRUE)>>,
   getIPFSCar |-> <<Call("dag.resolve", TRUE), Call("dag.export", TRUE)>>,
   getIPFS |-> serveGetCalls(TRUE),
   getIPNS |-> resolveIPNSCalls(TRUE) \o serveGetCalls(TRUE)]
\* how a call can fail
FailureKinds == {"notfound", "timeout", "other"}
\* a handler between two awaits: the request, where the handler is, and
\* its local variables (ipfsPath as resolved, addedURL, existing)
NoTask ==
  [r |-> NoReq, pc |-> "idle", res |-> [ok |-> FALSE, path |-> <<>>], url |-> NoURL,
   exists |-> 0, resp |-> NoResp]
Tasks == {1, 2}
NoTasks == [t \in Tasks |-> NoTask]
\* no handler is running
NoRun == [h |-> "", pc |-> 1, aborted |-> FALSE, late |-> {}, failed |-> "", status |-> 0]

SelfKey == [name |-> S("self"), id |-> KeyTok(1, "base36")]

Init ==
  /\ writable \in BOOLEAN
  /\ mfs = <<>>
  /\ keys = <<SelfKey>>
  /\ records = [i \in {1} |-> [seq |-> 0, value |-> <<>>]]
  /\ nextKey = 1
  /\ dag = {}
  /\ bus = {}
  /\ written = {}
  /\ req = NoReq
  /\ resp = NoResp
  /\ phase = "none"
  /\ format = ""
  /\ calls = <<>>
  /\ registered = FALSE
  /\ seqno = 0
  /\ delivered = <<>>
  /\ pushQueue = <<>>
  /\ consumed = <<>>
  /\ run = NoRun
  /\ tasks = NoTasks

\* the caller is answered: request r, result res of its handler
Responded(r, res) ==
  /\ OpsUsed(res.st) <= MaxOps
  /\ req' = r
  /\ resp' = res.resp
  /\ mfs' = res.st.mfs
  /\ keys' = res.st.keys
  /\ records' = res.st.records
  /\ nextKey' = res.st.nextKey
  /\ dag' = res.st.dag
  /\ bus' = res.st.bus
  /\ written' = IF r.body.k = "bytes" /\ r.scheme = "ipfs" /\ res.resp.status = 201
                THEN written \cup {[url |-> res.resp.loc, body |-> r.body.d,
                                    old |-> ResolveContent(urlToIPFSPath(r)).node]}
                ELSE written
  /\ UNCHANGED <<writable, run, tasks>>
Answer(r, res) ==
  /\ Responded(r, res)
  /\ UNCHANGED streamVars

\* one action per route: a request that the router gives to the handler
GetIPFS ==
  /\ req = NoReq
  /\ \E r \in GetIPFSRequests :
       /\ Route(r, writable) = "getIPFS"
       /\ \E res \in {getIPFS(St, r)} : Answer(r, res)
GetIPNS ==
  /\ req = NoReq
  /\ \E r \in GetIPNSRequests :
       /\ Route(r, writable) = "getIPNS"
       /\ \E res \in {getIPNS(St, r)} : Answer(r, res)
HeadIPFS ==
  /\ req = NoReq
  /\ \E r \in HeadIPFSRequests :
       /\ Route(r, writable) = "headIPFS"
       /\ \E res \in {headIPFS(St, r)} : Answer(r, res)
HeadIPNS ==
  /\ req = NoReq
  /\ \E r \in HeadIPNSRequests :
       /\ Route(r, writable) = "headIPNS"
       /\ \E res \in {headIPNS(St, r)} : Answer(r, res)
PutIPFS ==
  /\ req = NoReq
  /\ \E r \in PutIPFSRequests :
       /\ Route(r, writable) = "putIPFS"
       /\ \E done \in CompletionOrders(r.body) :
            \E res \in {putIPFS(St, [r EXCEPT !.body = done])} : Answer(r, res)
PostIPFSLocalhost ==
  /\ req = NoReq
  /\ \E r \in PostIPFSRequests :
       /\ Route(r, writable) = "postIPFSLocalhost"
       /\ \E done \in CompletionOrders(r.body) :
            \E res \in {postIPFSLocalhost(St, [r EXCEPT !.body = done])} : Answer(r, res)
GetKey ==
  /\ req = NoReq
  /\ \E r \in KeyRequests("GET") :
       /\ Route(r, writable) = "getKey"
       /\ \E res \in {getKey(St, r)} : Answer(r, res)
PostKey ==
  /\ req = NoReq
  /\ \E r \in KeyRequests("POST") :
       /\ Route(r, writable) = "postKey"
       /\ \E res \in {postKey(St, r)} : Answer(r, res)
DeleteKey ==
  /\ req = NoReq
  /\ \E r \in KeyRequests("DELETE") :
       /\ Route(r, writable) = "deleteKey"
       /\ \E res \in {deleteKey(St, r)} : Answer(r, res)
PostIPNS ==
  /\ req = NoReq
  /\ \E r \in PostIPNSRequests :
       /\ Route(r, writable) = "postIPNS"
       /\ \E res \in {postIPNS(St, r)} : Answer(r, res)
PutIPNS ==
  /\ req = NoReq
  /\ \E r \in PutIPNSRequests :
       /\ Route(r, writable) = "putIPNS"
       /\ \E done \in CompletionOrders(r.body) :
            \E res \in {putIPNS(St, [r EXCEPT !.body = done])} : Answer(r, res)
PostIPLD ==
  /\ req = NoReq
  /\ \E r \in PostIPLDRequests :
       /\ Route(r, writable) = "postIPLD"
       /\ \E res \in {postIPLD(St, r)} : Answer(r, res)
PostPubsub ==
  /\ req = NoReq
  /\ \E r \in PostPubsubRequests :
       /\ Route(r, writable) = "postPubsub"
       /\ \E res \in {postPubsub(St, r)} : Answer(r, res)
DeleteIPFS ==
  /\ req = NoReq
  /\ \E r \in DeleteIPFSRequests :
       /\ Route(r, writable) = "deleteIPFS"
       /\ \E res \in {deleteIPFS(St, r)} : Answer(r, res)
DeleteIPNS ==
  /\ req = NoReq
  /\ \E r \in DeleteIPNSRequests :
       /\ Route(r, writable) = "deleteIPNS"
       /\ \E res \in {deleteIPNS(St, r)} : Answer(r, res)
\* a request that no handler takes
NotFound ==
  /\ req = NoReq
  /\ \E r \in OtherRequests \cup PutIPFSRequests \cup PostIPFSRequests \cup KeyRequests("GET")
              \cup KeyRequests("POST") \cup KeyRequests("DELETE") \cup PostIPNSRequests
              \cup PutIPNSRequests \cup DeleteIPFSRequests \cup DeleteIPNSRequests
              \cup PatchRequests \cup PostIPLDRequests \cup PostPubsubRequests
              \cup GetPubsubRequests :
       /\ Route(r, writable) = "onNotFound"
       /\ Answer(r, Result(onNotFound, St))

\* the caller takes the response; the next request can be made
Return ==
  /\ req # NoReq
  /\ req' = NoReq
  /\ resp' = NoResp
  /\ UNCHANGED <<writable, mfs, keys, records, nextKey, dag, bus, written, run, tasks>>
  /\ UNCHANGED streamVars

Next ==
  \/ GetIPFS
  \/ GetIPNS
  \/ HeadIPFS
  \/ HeadIPNS
  \/ PutIPFS
  \/ PostIPFSLocalhost
  \/ GetKey
  \/ PostKey
  \/ DeleteKey
  \/ PostIPNS
  \/ PutIPNS
  \/ DeleteIPFS
  \/ DeleteIPNS
  \/ PostIPLD
  \/ PostPubsub
  \/ NotFound
  \/ Return

Spec == Init /\ [][Next]_vars

(***************************************************************************)
(* Range serving on its own: GET requests with a Range header on files of  *)
(* every size up to MaxRangeLen                                            *)
(***************************************************************************)
\* the file of n bytes 11, 12, ...
RangeFile(n) == File([i \in 1..n |-> 10 + i])
\* a bound of a range-spec: a position, or NaN when it is missing
RangeBounds == {NaN} \cup 0..MaxRangeLen
RangeSpecs == [s : RangeBounds, e : RangeBounds]
\* Range headers: "<unit>=<spec>", "<unit>=<spec>,<spec>", and one without "="
RangeHeaders ==
  {[present |-> TRUE, eq |-> TRUE, unit |-> u, specs |-> specs] :
     u \in {"bytes", "items"},
     specs \in {<<a>> : a \in RangeSpecs} \cup {<<a, b>> : a \in RangeSpecs, b \in RangeSpecs}}
  \cup {[present |-> TRUE, eq |-> FALSE, unit |-> "", specs |-> <<>>]}
RangeRequests ==
  {[Request("GET", "ipfs", CidTok(RangeFile(n)), <<E, E>>) EXCEPT !.range = h] :
     n \in 0..MaxRangeLen, h \in RangeHeaders}

GetRange ==
  /\ req = NoReq
  /\ \E r \in RangeRequests :
       /\ Route(r, writable) = "getIPFS"
       /\ \E res \in {getIPFS(St, r)} : Answer(r, res)

NextRange ==
  \/ GetRange
  \/ Return

SpecRange == Init /\ [][NextRange]_vars

(***************************************************************************)
(* Event streams: a subscription made by GET pubsub://<topic>/, the client *)
(* completing the calls made to it in the order they were made, the bus    *)
(* delivering messages, the caller reading and cancelling the stream       *)
(***************************************************************************)
\* the request is answered with the stream; nothing is subscribed before
\* the stream is read
GetPubsub ==
  /\ req = NoReq
  /\ phase = "none"
  /\ \E r \in GetPubsubRequests :
       /\ Route(r, writable) = "getPubsub"
       /\ \E res \in {getPubsub(St, r)} :
            /\ Responded(r, res)
            /\ phase' = IF WantsEvents(r) THEN "responded" ELSE phase
            /\ format' = IF WantsEvents(r) THEN r.format ELSE format
       /\ UNCHANGED <<calls, registered, seqno, delivered, pushQueue, consumed>>
StreamStep ==
  UNCHANGED <<writable, mfs, keys, records, nextKey, dag, bus, written, req, resp, format, run,
              tasks>>
\* EventIterator[Symbol.asyncIterator](): the listen function runs
Listen ==
  /\ phase = "responded"
  /\ phase' = "open"
  /\ calls' = listen(calls)
  /\ StreamStep
  /\ UNCHANGED <<registered, seqno, delivered, pushQueue, consumed>>
\* the client completes the subscribe call
ClientSubscribed ==
  /\ calls # <<>>
  /\ Head(calls) = "subscribe"
  /\ calls' = Tail(calls)
  /\ registered' = TRUE
  /\ StreamStep
  /\ UNCHANGED <<phase, seqno, delivered, pushQueue, consumed>>
\* the subscribe call is rejected: .catch((e) => fail(e)); EventQueue.fail
\* stops the queue and calls the remove callback, once
ClientRejected ==
  /\ calls # <<>>
  /\ Head(calls) = "subscribe"
  /\ registered' = FALSE
  /\ phase' = "stopped"
  /\ calls' = IF phase = "stopped" THEN Tail(calls) ELSE removeCallback(Tail(calls))
  /\ StreamStep
  /\ UNCHANGED <<seqno, delivered, pushQueue, consumed>>
\* the client completes the unsubscribe call
ClientUnsubscribed ==
  /\ calls # <<>>
  /\ Head(calls) = "unsubscribe"
  /\ calls' = Tail(calls)
  /\ registered' = FALSE
  /\ StreamStep
  /\ UNCHANGED <<phase, seqno, delivered, pushQueue, consumed>>
\* the bus delivers a message to the handler
Deliver ==
  /\ registered
  /\ seqno < MaxMessages
  /\ \E json \in BOOLEAN :
       /\ pushQueue' = push(phase = "stopped", pushQueue, handler(format, Message(seqno + 1, json)))
       /\ delivered' = IF phase = "stopped" THEN delivered
                       ELSE Append(delivered, Message(seqno + 1, json))
  /\ seqno' = seqno + 1
  /\ StreamStep
  /\ UNCHANGED <<phase, calls, registered, consumed>>
\* the caller reads the next event of the response stream
Pull ==
  /\ phase = "open"
  /\ pushQueue # <<>>
  /\ consumed' = Append(consumed, Head(pushQueue))
  /\ pushQueue' = Tail(pushQueue)
  /\ StreamStep
  /\ UNCHANGED <<phase, calls, registered, seqno, delivered>>
\* the caller cancels the response stream: the iterator's return() stops
\* the queue, empties it and calls the remove callback
Cancel ==
  /\ phase \in {"responded", "open"}
  /\ phase' = "stopped"
  /\ calls' = IF phase = "open" THEN removeCallback(calls) ELSE calls
  /\ pushQueue' = <<>>
  /\ StreamStep
  /\ UNCHANGED <<registered, seqno, delivered, consumed>>

NextPubsub ==
  \/ GetPubsub
  \/ Return
  \/ Listen
  \/ ClientSubscribed
  \/ ClientRejected
  \/ ClientUnsubscribed
  \/ Deliver
  \/ Pull
  \/ Cancel

SpecPubsub == Init /\ [][NextPubsub]_vars
\* the client completes every call made to it
ClientStep == ClientSubscribed \/ ClientRejected \/ ClientUnsubscribed
SpecPubsubLive == SpecPubsub /\ WF_vars(ClientStep)

(***************************************************************************)
(* Response encodings: GET requests with every combination of a format     *)
(* parameter and an Accept header, on content and on linked data           *)
(***************************************************************************)
FormatNames == {"", "raw", "car", "dag-cbor", "dag-json"}
AcceptNames == {"", "application/vnd.ipld.raw", "application/vnd.ipld.car", CborType,
                "application/json", "text/html"}
FormatRequests(scheme, hosts) ==
  {[Request("GET", scheme, h, p) EXCEPT !.format = f, !.accept = a] :
     h \in hosts, p \in {<<E, E>>, <<E, DName, ATxt>>}, f \in FormatNames, a \in AcceptNames}
GetFormat ==
  /\ req = NoReq
  /\ \E r \in FormatRequests("ipfs", {CidTok(R1)}) :
       /\ Route(r, writable) = "getIPFS"
       /\ \E res \in {getIPFS(St, r)} : Answer(r, res)
GetIPLD ==
  /\ req = NoReq
  /\ \E r \in FormatRequests("ipld", {CidTok(HelloWorld)}) :
       /\ Route(r, writable) = "getIPLD"
       /\ \E encodes \in BOOLEAN :
            \E res \in {getIPLD(St, r, encodes)} : Answer(r, res)

NextFormat ==
  \/ GetFormat
  \/ GetIPLD
  \/ Return

SpecFormat == Init /\ [][NextFormat]_vars

(***************************************************************************)
(* Concurrent requests: two handlers that write under a name or make a     *)
(* key, each taking one step per await; the client calls of one can fall   *)
(* between those of the other                                              *)
(***************************************************************************)
TaskStep(t, task, st) ==
  /\ OpsUsed(st) <= MaxTaskOps
  /\ tasks' = [tasks EXCEPT ![t] = task]
  /\ mfs' = st.mfs
  /\ keys' = st.keys
  /\ records' = st.records
  /\ nextKey' = st.nextKey
  /\ dag' = st.dag
  /\ bus' = st.bus
  /\ UNCHANGED <<writable, written, req, resp, run>>
  /\ UNCHANGED streamVars
\* the handler returns or throws
Ended(task, res) == [task EXCEPT !.pc = "done", !.resp = res.resp]
\* const keyName = split[0]; const subpath = split.slice(1).join('/')
KeyNameOf(r) == urlToIPNSPath(r)[1]
SubpathOf(r) == SliceJoin(urlToIPNSPath(r), 1)

\* a name is published before the concurrent requests are made
Published1 ==
  /\ tasks = NoTasks
  /\ PostIPNS
\* two writers put different bytes at the same path below a name
ConcurrentPuts ==
  {WithBody(Request("PUT", "ipns", h, <<E, ATxt>>), BytesBody(b)) :
     h \in NameHosts, b \in {B1, B3}}
\* router.put('ipns://**/**') is given a request
StartPut ==
  /\ req = NoReq
  /\ \E t \in Tasks, r \in ConcurrentPuts :
       /\ tasks[t].pc = "idle"
       /\ Route(r, writable) = "putIPNS"
       /\ TaskStep(t, [NoTask EXCEPT !.r = r, !.pc = "resolve"], St)
\* router.post('ipns://localhost/') is given a request
StartKey ==
  /\ req = NoReq
  /\ \E t \in Tasks, r \in {q \in KeyRequests("POST") : q.key \in KeyNames} :
       /\ tasks[t].pc = "idle"
       /\ Route(r, writable) = "postKey"
       /\ TaskStep(t, [NoTask EXCEPT !.r = r, !.pc = "check"], St)
\* ipfsPath = await resolveIPNS(keyName), or the subpath when it throws
Resolve ==
  \E t \in Tasks :
    /\ tasks[t].pc = "resolve"
    /\ TaskStep(t, [tasks[t] EXCEPT !.pc = "upload",
                                    !.res = resolveIPNS(St, <<KeyNameOf(tasks[t].r)>>)], St)
\* const addedURL = await uploadData(ipfsPath, request, isFormData, signal)
Upload ==
  \E t \in Tasks :
    /\ tasks[t].pc = "upload"
    /\ \E up \in {uploadData(St, PathToWrite(tasks[t].res, SubpathOf(tasks[t].r)),
                               tasks[t].r.body, FALSE)} :
         TaskStep(t, IF up.ok THEN [tasks[t] EXCEPT !.pc = "check", !.url = up.url]
                     ELSE Ended(tasks[t], Result(Thrown, up.st)),
                  up.st)
\* const existing = await hasKey(keyName)
CheckKey ==
  \E t \in Tasks :
    /\ tasks[t].pc = "check"
    /\ TaskStep(t, IF tasks[t].r.method = "PUT"
                   THEN [tasks[t] EXCEPT !.pc = "publish",
                                         !.exists = hasKey(St, KeyNameOf(tasks[t].r))]
                   ELSE [tasks[t] EXCEPT !.pc = "ensure",
                                         !.exists = hasKey(St, tasks[t].r.key)],
                St)
\* updateIPNS after its hasKey: genKey when none existed, then name.publish
Publish ==
  \E t \in Tasks :
    /\ tasks[t].pc = "publish"
    /\ \E res \in {UpdateKey(St, KeyNameOf(tasks[t].r),
                              <<E, S("ipfs"), tasks[t].url.rest[1], E>>, tasks[t].exists)} :
         TaskStep(t, Ended(tasks[t], res), res.st)
\* router.post('ipns://localhost/') after its first hasKey: genKey when none
\* existed, then hasKey and keyToURL
Ensure ==
  \E t \in Tasks :
    /\ tasks[t].pc = "ensure"
    /\ \E res \in {KeyEnsured(St, tasks[t].r.key, tasks[t].exists)} :
         TaskStep(t, Ended(tasks[t], res), res.st)

NextTasks ==
  \/ Published1
  \/ Return
  \/ StartPut
  \/ StartKey
  \/ Resolve
  \/ Upload
  \/ CheckKey
  \/ Publish
  \/ Ensure

SpecTasks == Init /\ [][NextTasks]_vars

(***************************************************************************)
(* Client calls of a handler: the handlers of the routes as the sequence   *)
(* of calls they make to the client, each with or without the signal of    *)
(* the request among its options.  A call either completes or fails; a     *)
(* call that was given the signal fails once the signal has fired.         *)
(***************************************************************************)
\* the routed fetch answers a handler that threw, whatever it threw
statusOfError(kind) == Thrown.status
\* the calls of a try block are skipped from the first that fails
RECURSIVE AfterCatch(_, _)
AfterCatch(list, pc) ==
  IF pc <= Len(list) /\ list[pc].caught THEN AfterCatch(list, pc + 1) ELSE pc

RunCall == Handlers[run.h][run.pc]
Running == run.h # "" /\ run.status = 0 /\ run.pc <= Len(Handlers[run.h])
RunStep ==
  UNCHANGED <<writable, mfs, keys, records, nextKey, dag, bus, written, req, resp, tasks>>
  /\ UNCHANGED streamVars

\* the router gives a request to the handler
Begin ==
  /\ run = NoRun
  /\ \E h \in DOMAIN Handlers : run' = [NoRun EXCEPT !.h = h]
  /\ RunStep
\* the call the handler awaits completes
CallDone ==
  /\ Running
  /\ ~(run.aborted /\ RunCall.signal)
  /\ run' = [run EXCEPT !.pc = @ + 1,
                        !.late = IF run.aborted THEN @ \cup {RunCall.cap} ELSE @]
  /\ RunStep
\* the call the handler awaits fails: the handler throws, or goes on after
\* its catch block
CallFails ==
  /\ Running
  /\ \E kind \in FailureKinds \cup {"abort"} :
       /\ kind = "abort" => run.aborted /\ RunCall.signal
       /\ run' = IF RunCall.caught
                 THEN [run EXCEPT !.pc = AfterCatch(Handlers[run.h], run.pc)]
                 ELSE [run EXCEPT !.failed = kind, !.status = statusOfError(kind)]
  /\ RunStep
\* the signal of the request fires
Abort ==
  /\ Running
  /\ ~run.aborted
  /\ run' = [run EXCEPT !.aborted = TRUE]
  /\ RunStep
\* the handler has returned or thrown
Finish ==
  /\ run.h # ""
  /\ ~Running
  /\ run' = NoRun
  /\ RunStep

NextCalls ==
  \/ Begin
  \/ CallDone
  \/ CallFails
  \/ Abort
  \/ Finish

SpecCalls == Init /\ [][NextCalls]_vars

(***************************************************************************)
(* Properties                                                              *)
(***************************************************************************)
\* the GET request on a URL
GetOfURL(u) == Request("GET", "ipfs", Hostname(u), Pathname(u))

\* C1: every successful single-file write with body B (PUT ipfs://<root>/<path>
\* or POST ipfs://localhost/) returns a Location on which a GET answers 200
\* with body exactly B, also when B replaces content of another length.
C1_WriteThenGet ==
  \A w \in written :
    /\ getIPFS(St, GetOfURL(w.url)).resp.status = 200
    /\ getIPFS(St, GetOfURL(w.url)).resp.body = BytesOut(w.body)
    /\ req = GetOfURL(w.url) => resp.status = 200 /\ resp.body = BytesOut(w.body)

\* a GET on the Location of a write that replaced longer content
C1_Witness ==
  \E w \in written :
    /\ req = GetOfURL(w.url)
    /\ resp.status = 200
    /\ resp.body = BytesOut(w.body)
    /\ w.old.t = "file"
    /\ Len(w.old.data) > Len(w.body)

\* the entries of the directory at the names below a root; none when there
\* is no such directory
ChildrenAt(root, names) ==
  IF Walk(root, names).ok /\ Walk(root, names).node.t = "dir"
  THEN Walk(root, names).node.ents ELSE <<>>
\* the directory a PUT writes into and the file names it writes there
PutDirectory(r) ==
  IF r.body.k = "form" THEN NonEmpty(r.path) ELSE Front(NonEmpty(r.path))
PutNames(r) ==
  IF r.body.k = "form"
  THEN {r.body.parts[i].name : i \in {j \in DOMAIN r.body.parts :
                                       r.body.parts[j].field = "file"
                                       /\ r.body.parts[j].name # E}}
  ELSE {Last(NonEmpty(r.path))}
IsPutToDirectoryRoot ==
  /\ req.method = "PUT"
  /\ req.scheme = "ipfs"
  /\ req.host.k = "cid"
  /\ req.host.c.t = "dir"
  /\ resp.status = 201

IsGetOfPublishedName ==
  /\ req.method = "GET"
  /\ req.scheme = "ipns"
  /\ req.host.k = "key"
  /\ req.host.n \in DOMAIN records
  /\ records[req.host.n].seq > 0
\* the same GET on the content URL that the record of the key holds
GetOfTarget == [req EXCEPT !.scheme = "ipfs", !.host = NonEmpty(records[req.host.n].value)[2]]

\* C3: after a successful POST ipns://<publicId(A)>/ with body U, a GET of
\* ipns://<publicId(A)>/<rest> has the status and the body of a GET of
\* U/<rest>, until the next publication under A.
C3_PublishedNameServesTarget ==
  IsGetOfPublishedName =>
    /\ resp.status = getIPFS(St, GetOfTarget).resp.status
    /\ resp.body = getIPFS(St, GetOfTarget).resp.body

\* the answer 201 to a POST or PUT on ipns://<publicId>/..., the public
\* identifier of a key that the client holds when the request is made
NameWriteAnswered ==
  /\ req = NoReq
  /\ req'.scheme = "ipns"
  /\ req'.method \in {"POST", "PUT"}
  /\ req'.host # SPECIAL_HOSTNAME
  /\ \E i \in DOMAIN keys : ToBase36(keys[i].id) = req'.host
  /\ resp'.status = 201

RecordDir(st, id) == ipfsResolve(st, st.records[id.n].value, ResolveDepth).node
\* a file is PUT at ipns://<publicId>/<file>, the public identifier of a key
\* the client holds and whose record points to a directory
PutOnPublishedName ==
  /\ req = NoReq
  /\ req'.method = "PUT"
  /\ req'.scheme = "ipns"
  /\ req'.body.k = "bytes"
  /\ Len(NonEmpty(req'.path)) = 1
  /\ \E i \in DOMAIN keys : ToBase36(keys[i].id) = req'.host
  /\ records[req'.host.n].seq > 0
  /\ RecordDir(St, req'.host).t = "dir"

\* C5: a PUT ipns://<publicId>/<file> on a key whose record points to
\* directory D succeeds, and the record of the key then points to a
\* directory whose children are those of D and <file>.
C5_PutUnderNameMerges ==
  [][PutOnPublishedName =>
       /\ resp'.status = 201
       /\ records'[req'.host.n].seq > records[req'.host.n].seq
       /\ DOMAIN RecordDir(St', req'.host).ents
            = DOMAIN RecordDir(St, req'.host).ents \cup {NonEmpty(req'.path)[1]}]_vars

\* the keys of a key list that a key parameter names: by alias or by base36
\* public identifier
Holders(ks, A) == {i \in DOMAIN ks : ks[i].name = A \/ ToBase36(ks[i].id) = A}
\* the URL of the first of them
HolderURL(ks, A) ==
  MakeURL("ipns",
          ToBase36(ks[CHOOSE i \in Holders(ks, A) : \A j \in Holders(ks, A) : i <= j].id),
          <<E, E>>)
\* a GET on ipns://localhost/?key=A has been answered
IsGetKey ==
  /\ req.method = "GET"
  /\ req.scheme = "ipns"
  /\ req.host = SPECIAL_HOSTNAME
  /\ IsRoot(req.path)
\* the key parameters of the model and the aliases in use
KeyParams == KeyNames \cup KeyIds \cup {S("self")} \cup {keys[i].name : i \in DOMAIN keys}

\* the answer to GET ipns://localhost/?key=A
C6_Answer ==
  writable /\ IsGetKey =>
    IF Holders(keys, req.key) # {}
    THEN resp.status = 302 /\ resp.loc = HolderURL(keys, req.key)
    ELSE resp.status = 404
\* no step changes the Location of a key parameter that names a key before
\* and after the step
C6_Stable ==
  \A A \in KeyParams :
    Holders(keys, A) # {} /\ Holders(keys', A) # {} => HolderURL(keys', A) = HolderURL(keys, A)

\* C6 (amended): on a writable adapter GET ipns://localhost/?key=A answers
\* 302 when a local key has the alias A or the base36 public identifier A,
\* with Location ipns://<public identifier of that key>/, and 404 otherwise;
\* while such a key exists the Location is the same after every request.
C6_KeyLookup == [](C6_Answer) /\ [][C6_Stable]_vars

\* the key k was created and is found by its public identifier
C6_Witness ==
  /\ writable
  /\ IsGetKey
  /\ \E i \in DOMAIN keys : keys[i].name = S("k") /\ ToBase36(keys[i].id) = req.key
  /\ resp.status = 302
  /\ resp.loc = MakeURL("ipns", req.key, <<E, E>>)

\* C6 as stated: on a writable adapter the answer is 302 if the alias A has
\* been created and not deleted since, and 404 otherwise.
C6_AliasCreated ==
  writable /\ IsGetKey =>
    IF \E i \in DOMAIN keys : keys[i].name = req.key
    THEN resp.status = 302 ELSE resp.status = 404

\* a POST on ipns://localhost/?key=A of a writable adapter is answered
PostKeyAnswered ==
  /\ req = NoReq
  /\ writable
  /\ req'.method = "POST"
  /\ req'.scheme = "ipns"
  /\ req'.host = SPECIAL_HOSTNAME
  /\ IsRoot(req'.path)
  /\ req'.key # E

\* C7: POST ipns://localhost/?key=A on a writable adapter always answers 201
\* with the Location of the key that A names; the call that finds no such
\* key adds exactly that key, and every call that finds it leaves the key
\* set as it was and answers the Location the key already had.
C7_PostKeyIdempotent ==
  [][PostKeyAnswered =>
       /\ resp'.status = 201
       /\ Holders(keys', req'.key) # {}
       /\ resp'.loc = HolderURL(keys', req'.key)
       /\ IF Holders(keys, req'.key) # {}
          THEN keys' = keys /\ resp'.loc = HolderURL(keys, req'.key)
          ELSE /\ Len(keys') = Len(keys) + 1
               /\ SubSeq(keys', 1, Len(keys)) = keys
               /\ keys'[Len(keys')].name = req'.key]_vars

\* a later call: the key k has been created and published under before
C7_Witness ==
  /\ writable
  /\ req.method = "POST"
  /\ req.scheme = "ipns"
  /\ req.host = SPECIAL_HOSTNAME
  /\ req.key = S("k")
  /\ resp.status = 201
  /\ \E i \in DOMAIN keys :
       /\ keys[i].name = S("k")
       /\ records[keys[i].id.n].seq > 0
       /\ resp.loc = MakeURL("ipns", ToBase36(keys[i].id), <<E, E>>)

\* a GET with a Range header on a file has been answered
IsRangeGet ==
  /\ req.method = "GET"
  /\ req.scheme = "ipfs"
  /\ req.range.present
  /\ req.host.k = "cid"
  /\ req.host.c.t = "file"
  /\ IsRoot(req.path)
FileBytes == req.host.c.data
\* what the Range header parses to against the size of the file
Parsed == parseRange(Len(FileBytes), req.range)
\* the header is "bytes=s-e" with 0 <= s <= e < n
IsPlainRange ==
  /\ req.range.eq
  /\ req.range.unit = "bytes"
  /\ Len(req.range.specs) = 1
  /\ req.range.specs[1].s # NaN
  /\ req.range.specs[1].e # NaN
  /\ 0 <= req.range.specs[1].s
  /\ req.range.specs[1].s <= req.range.specs[1].e
  /\ req.range.specs[1].e < Len(FileBytes)
\* the response 206 for the range s..e of the file
IsPartial(s, e) ==
  /\ resp.status = 206
  /\ resp.crange = [s |-> s, e |-> e, size |-> Len(FileBytes)]
  /\ resp.clen = e - s + 1
  /\ resp.body = BytesOut(SubSeq(FileBytes, s + 1, e + 1))
\* the response 200 with the whole file
IsWhole ==
  /\ resp.status = 200
  /\ resp.crange = NoCR
  /\ resp.clen = Len(FileBytes)
  /\ resp.body = BytesOut(FileBytes)

\* C8: a GET on a file of size n with a Range header that parses to exactly
\* one bytes range [s,e], 0 <= s <= e < n, is answered 206 with Content-Range
\* bytes s-e/n, Content-Length e-s+1 and the bytes s..e of the file; the
\* header bytes=s-e with 0 <= s <= e < n parses to [s,e].
C8_SingleRange ==
  /\ (IsRangeGet /\ IsPlainRange) =>
       IsPartial(req.range.specs[1].s, req.range.specs[1].e)
  /\ (IsRangeGet /\ Parsed.code = 0 /\ Parsed.type = "bytes" /\ Len(Parsed.ranges) = 1) =>
       /\ 0 <= Parsed.ranges[1].start
       /\ Parsed.ranges[1].start <= Parsed.ranges[1].end
       /\ Parsed.ranges[1].end < Len(FileBytes)
       /\ IsPartial(Parsed.ranges[1].start, Parsed.ranges[1].end)

\* the middle byte of a file of three bytes
C8_Witness ==
  /\ IsRangeGet
  /\ IsPlainRange
  /\ Len(FileBytes) = 3
  /\ req.range.specs = <<[s |-> 1, e |-> 1]>>
  /\ resp.status = 206
  /\ resp.body = BytesOut(<<12>>)

\* C9 (amended): a GET on a file whose Range header is malformed, names no
\* satisfiable range or has a unit other than bytes is answered 200 with the
\* whole file, Content-Length the size and no Content-Range; a header in
\* bytes with more than one satisfiable range is answered 206 for the first
\* satisfiable range alone; the answer is never an error.
C9_OtherRanges ==
  IsRangeGet =>
    /\ resp.status \in {200, 206}
    /\ (Parsed.code < 0 \/ Parsed.type # "bytes") => IsWhole
    /\ (Parsed.code = 0 /\ Parsed.type = "bytes" /\ Len(Parsed.ranges) > 1) =>
         IsPartial(Parsed.ranges[1].start, Parsed.ranges[1].end)

\* two satisfiable ranges: the first one is served
C9_Witness ==
  /\ IsRangeGet
  /\ Len(FileBytes) = 3
  /\ req.range.unit = "bytes"
  /\ req.range.specs = <<[s |-> 1, e |-> 2], [s |-> 0, e |-> 0]>>
  /\ resp.status = 206
  /\ resp.body = BytesOut(<<12, 13>>)

\* C9 as stated: a Range header that does not parse to exactly one
\* satisfiable bytes range is answered 200 with the whole file.
C9_WholeUnlessSingle ==
  (IsRangeGet /\ ~(Parsed.code = 0 /\ Parsed.type = "bytes" /\ Len(Parsed.ranges) = 1)) =>
    IsWhole

\* the content GET that a GET on a content URL, or on the name of a
\* published record, stands for
IsDirectoryGet ==
  /\ req.method = "GET"
  /\ req.format = ""
  /\ req.accept \in {"", "text/html"}
  /\ \/ req.scheme = "ipfs" /\ req.host.k = "cid"
     \/ IsGetOfPublishedName
ContentGet == IF req.scheme = "ipns" THEN GetOfTarget ELSE req
\* what the path of the GET resolves to
Addressed == ResolveContent(urlToIPFSPath(ContentGet))
HasIndex ==
  /\ Addressed.ok
  /\ Addressed.node.t = "dir"
  /\ IndexHtml \in DOMAIN Addressed.node.ents
  /\ Addressed.node.ents[IndexHtml].t = "file"
IndexServed ==
  /\ resp.status = 200
  /\ resp.ctype = "text/html; charset=utf-8"
  /\ resp.clen = Len(Addressed.node.ents[IndexHtml].data)
  /\ resp.body = BytesOut(Addressed.node.ents[IndexHtml].data)
ListingServed ==
  /\ resp.status = 200
  /\ resp.body.k \in {"html", "json"}
  /\ resp.body.files = lsFiles(Addressed.node)

\* C10: a GET on a content or name URL that resolves to a directory with an
\* index.html child is answered with the bytes and the MIME type of that
\* child when the URL has no noResolve parameter, and with the listing of
\* the directory when it has one.
C10_IndexOrListing ==
  (IsDirectoryGet /\ HasIndex) =>
    IF req.noResolve THEN ListingServed ELSE IndexServed

\* a HEAD on a content URL that resolves
IsHead ==
  /\ req.method = "HEAD"
  /\ req.scheme = "ipfs"
  /\ Addressed.ok
\* the response 200 without a body that reports the headers of a file
FileReported(file, mime) ==
  /\ resp.status = 200
  /\ resp.body = NoOut
  /\ resp.ctype = mime
  /\ resp.clen = Len(file.data)
  /\ resp.aranges = "bytes"
\* the response 200 without a body, Content-Length or Accept-Ranges
EmptyOk ==
  /\ resp.status = 200
  /\ resp.body = NoOut
  /\ resp.clen = -1
  /\ resp.aranges = ""
HeadOfFile ==
  (IsHead /\ Addressed.node.t = "file") =>
    FileReported(Addressed.node, getMimeType(req.path))
HeadOfIndex ==
  (IsHead /\ HasIndex /\ ~req.noResolve) =>
    FileReported(Addressed.node.ents[IndexHtml], "text/html; charset=utf-8")
HeadOfDirectory ==
  (IsHead /\ Addressed.node.t = "dir" /\ (req.noResolve \/ ~HasIndex)) => EmptyOk

\* C11: a HEAD on a file is answered 200 without a body and with the
\* Content-Type, the Content-Length (the size of the file) and
\* Accept-Ranges: bytes; a HEAD on a directory reports the headers of its
\* index.html when there is one and noResolve is absent, and is otherwise
\* an empty 200 without Content-Length and Accept-Ranges.
C11_HeadHeaders == HeadOfFile /\ HeadOfIndex /\ HeadOfDirectory

\* the names of the entries in the content of the model, and the paths of
\* at most two names
EntryNames == {IndexHtml, ATxt, DName, S("b")}
EntryPaths == {<<>>} \cup {<<a>> : a \in EntryNames} \cup {<<a, b>> : a \in EntryNames, b \in EntryNames}
IsPrefix(p, q) == Len(p) <= Len(q) /\ SubSeq(q, 1, Len(p)) = p
\* a DELETE on ipfs://R/<path> with <path> an entry of R, writable adapter
DeletedPath == NonEmpty(req.path)
IsDeleteOfEntry ==
  /\ writable
  /\ req.method = "DELETE"
  /\ req.scheme = "ipfs"
  /\ req.host.k = "cid"
  /\ DeletedPath # <<>>
  /\ Walk(req.host.c, DeletedPath).ok
\* root is R without the entry at path: what is under path is gone, the
\* entries on the way to path are directories, and every other entry is as
\* it is in R
IsWithout(root, R, path) ==
  \A q \in EntryPaths :
    IF IsPrefix(path, q) THEN ~Walk(root, q).ok
    ELSE IF IsPrefix(q, path) THEN Walk(root, q).ok /\ Walk(root, q).node.t = "dir"
    ELSE Walk(root, q) = Walk(R, q)

\* C12: a DELETE on ipfs://R/<path>, <path> an entry of R, is answered 200
\* with Location ipfs://R'/, R' being R with <path> removed recursively and
\* every other entry unchanged; a GET of ipfs://R/ made after it still lists
\* the entries of R.
C12_DeleteRemovesPath ==
  IsDeleteOfEntry =>
    /\ resp.status = 200
    /\ Hostname(resp.loc).k = "cid"
    /\ resp.loc = MakeURL("ipfs", Hostname(resp.loc), <<E, E>>)
    /\ resp.body = UrlOut(resp.loc)
    /\ IsWithout(Hostname(resp.loc).c, req.host.c, DeletedPath)
    /\ Last(mfs) = Hostname(resp.loc).c
    /\ getIPFS(St, [req EXCEPT !.method = "GET", !.path = <<E, E>>, !.noResolve = TRUE]).resp
         = Listing("application/json; charset=utf-8", "json", lsFiles(req.host.c))

\* d/a.txt is deleted from the site: d stays, empty, and index.html stays
C12_Witness ==
  /\ IsDeleteOfEntry
  /\ req.host = CidTok(R1)
  /\ DeletedPath = <<DName, ATxt>>
  /\ resp.status = 200
  /\ Hostname(resp.loc).c = Dir(WithEntry(WithEntry(<<>>, IndexHtml, File(<<1, 2>>)), DName, EmptyDir))

\* JSON Patch (RFC 6902) on a map of lists: the value after one operation
InsertAt(items, i, x) == SubSeq(items, 1, i) \o <<x>> \o SubSeq(items, i + 1, Len(items))
DropAt(items, i) == SubSeq(items, 1, i) \o SubSeq(items, i + 2, Len(items))
PatchAdd(e, op, value) ==
  IF op.idx < 0 THEN WithEntry(e, op.name, value)
  ELSE WithEntry(e, op.name, List(InsertAt(e[op.name].data, op.idx, value.data[1])))
PatchRemove(e, name, idx) ==
  IF idx < 0 THEN WithoutEntry(e, name)
  ELSE WithEntry(e, name, List(DropAt(e[name].data, idx)))
PatchApply(e, op) ==
  CASE op.op = "add" -> PatchAdd(e, op, op.value)
    [] op.op = "remove" -> PatchRemove(e, op.name, op.idx)
    [] op.op = "replace" -> PatchAdd(PatchRemove(e, op.name, op.idx), op, op.value)
    [] op.op = "move" -> PatchAdd(PatchRemove(e, op.from, -1), op, e[op.from])
    [] op.op = "copy" -> PatchAdd(e, op, e[op.from])
RECURSIVE Patched(_, _)
Patched(e, ops) == IF ops = <<>> THEN e ELSE Patched(PatchApply(e, Head(ops)), Tail(ops))

\* a PATCH on ipld://X/ on a writable adapter
IsPatch ==
  /\ writable
  /\ req.method = "PATCH"
  /\ req.scheme = "ipld"
  /\ req.host.k = "cid"
  /\ req.host.c.t = "map"

\* C13: a PATCH on ipld://X/ with a JSON-Patch body is answered 201 with
\* Location ipld://X'/, the value at X' being the value at X with the
\* operations applied in the order given.
C13_PatchApplied ==
  IsPatch =>
    /\ resp.status = 201
    /\ resp.loc = MakeURL("ipld", Hostname(resp.loc), <<E, E>>)
    /\ Hostname(resp.loc).k = "cid"
    /\ Hostname(resp.loc).c = Map(Patched(req.host.c.ents, req.body.ops))

\* a request with a method that writes is made to a read-only adapter
WriteMethods == {"POST", "PUT", "DELETE", "PATCH"}
ReadOnlyWrite ==
  /\ req = NoReq
  /\ ~writable
  /\ req'.method \in WriteMethods

\* C14: on an adapter made with writable = false, every POST, PUT, DELETE
\* and PATCH, on every scheme and host, is answered by onNotFound and
\* changes nothing at the client: no key, file, scratch directory, stored
\* node, name record or pubsub message.
C14_ReadOnlyAdapter ==
  [][ReadOnlyWrite =>
       /\ resp' = onNotFound
       /\ UNCHANGED <<mfs, keys, records, nextKey, dag, bus>>]_vars

\* a POST on pubsub://<topic>/ to a read-only adapter
C14_Witness ==
  /\ ~writable
  /\ req.method = "POST"
  /\ req.scheme = "pubsub"
  /\ resp = onNotFound
  /\ bus = {}

\* a PUT on the reserved host is made to a writable adapter
ReservedPut ==
  /\ req = NoReq
  /\ writable
  /\ req'.method = "PUT"
  /\ req'.scheme \in {"ipfs", "ipns"}
  /\ req'.host = SPECIAL_HOSTNAME

\* C15: every PUT on ipfs://localhost/<path> or ipns://localhost/<path>,
\* for the root and every other path, is answered by onNotFound and makes
\* no scratch directory, writes no file and publishes no record.
C15_ReservedPut ==
  [][ReservedPut =>
       /\ resp' = onNotFound
       /\ UNCHANGED <<mfs, records>>]_vars

StreamEvents == consumed \o pushQueue
\* the event is the one of the message
IsEventOf(ev, m) ==
  IF format = "json" /\ ~m.json
  THEN ev.type = "error"
  ELSE ev.type = "" /\ ev.id = m.seqno

\* C17: while the stream is open, the events read and waiting are one per
\* message delivered to the handler, in the order of delivery; what was
\* read from a stream stopped since is a prefix of them.
C17_EventsInOrder ==
  /\ phase = "open" =>
       /\ Len(StreamEvents) = Len(delivered)
       /\ \A i \in DOMAIN delivered : IsEventOf(StreamEvents[i], delivered[i])
  /\ phase = "stopped" =>
       /\ Len(consumed) <= Len(delivered)
       /\ \A i \in DOMAIN consumed : IsEventOf(consumed[i], delivered[i])

\* three messages delivered, two events read, the third waiting
C17_Witness ==
  /\ phase = "open"
  /\ Len(delivered) = 3
  /\ Len(consumed) = 2
  /\ consumed[1].id = 1
  /\ consumed[2].id = 2
  /\ Len(pushQueue) = 1

\* the bus delivers a message to the handler of an open stream
Delivery ==
  /\ phase = "open"
  /\ seqno' = seqno + 1
  /\ Len(delivered') = Len(delivered) + 1
\* a message was delivered before whose payload could not be decoded
HadFailure == \E i \in DOMAIN delivered : format = "json" /\ ~delivered[i].json

\* C18: a message whose payload cannot be decoded (format=json, not JSON)
\* produces one event of type error; the stream stays open, the handler
\* stays subscribed, and every message delivered after it still produces
\* its event.
C18_DecodeFailure ==
  [][Delivery =>
       /\ phase' = "open"
       /\ registered' = registered
       /\ calls' = calls
       /\ Len(pushQueue') = Len(pushQueue) + 1
       /\ (format = "json" /\ ~Last(delivered').json) =>
            pushQueue' = Append(pushQueue, [type |-> "error", id |-> 0, data |-> "stack"])
       /\ (HadFailure /\ Last(delivered').json) =>
            /\ Last(pushQueue').type = ""
            /\ Last(pushQueue').id = Last(delivered').seqno]_vars

\* an error event for the first message, then the event of the second
C18_Witness ==
  /\ phase = "open"
  /\ registered
  /\ format = "json"
  /\ Len(consumed) = 2
  /\ consumed[1].type = "error"
  /\ consumed[2].type = ""
  /\ consumed[2].id = 2

\* the records the client has published so far, over all keys
RecordsOf(st) == SumSeq(st.records, st.nextKey)
\* a request is answered 201 by POST ipns://<key>/ or PUT ipns://<key>/<path>
PublishAnswered ==
  /\ req = NoReq
  /\ req' # NoReq
  /\ req'.scheme = "ipns"
  /\ req'.host # SPECIAL_HOSTNAME
  /\ req'.method \in {"POST", "PUT"}
  /\ resp'.status = 201

\* C19: no step publishes more than one record; a POST ipns://<key>/ or a
\* PUT ipns://<key>/<path> answered 201 has published exactly one, also
\* when it generated the key, and every other request publishes none; no
\* record is taken back.
C19_PublishOnce ==
  [][/\ RecordsOf(St') - RecordsOf(St) = (IF PublishAnswered THEN 1 ELSE 0)
     /\ \A i \in DOMAIN records : records'[i].seq >= records[i].seq]_vars

\* a POST under a name the client had no key for: the key was generated and
\* its first record published
C19_Witness ==
  /\ req.method = "POST"
  /\ req.scheme = "ipns"
  /\ req.host = S("k")
  /\ resp.status = 201
  /\ nextKey = 2
  /\ keys = <<SelfKey, [name |-> S("k"), id |-> KeyTok(2, "base36")]>>
  /\ records[2].seq = 1
  /\ records[1].seq = 0

\* the URLs the response returns, in its Location header and in its body
ReturnedURLs ==
  (IF resp.loc # NoURL THEN {resp.loc} ELSE {})
  \cup (IF resp.body.k = "url" THEN {resp.body.u} ELSE {})
  \cup (IF resp.body.k = "urls" THEN resp.body.files ELSE {})
\* the identifier is a version-1 CID in the multibase of its scheme
IsStableCID(u) ==
  /\ Hostname(u).k \in {"cid", "key"}
  /\ Hostname(u).b = (IF u.scheme = "ipns" THEN "base36" ELSE "base32")

\* C20: every URL a response returns, in its Location header or its body,
\* names a version-1 CID, in base32 when the URL is ipfs:// or ipld:// and
\* in base36 when it is ipns://, whatever the version of the CID of the
\* root written to or of the root of the archive imported.
C20_StableCID == \A u \in ReturnedURLs : IsStableCID(u)

\* C21: no call to the client made for a request completes after the
\* signal of that request has fired: every call was given the signal.
C21_SignalEverywhere == run.late = {}

\* C22: a handler that ends on a failed call answers 404 when the call
\* found no path or entry, 408 when it timed out, 500 otherwise.
C22_FailureStatus ==
  /\ run.failed = "notfound" => run.status = 404
  /\ run.failed = "timeout" => run.status = 408
  /\ run.failed = "other" => run.status = 500

\* a form is PUT on ipfs://<root>/<directory>/ and the write is answered 201
FormWritten ==
  /\ req = NoReq
  /\ req'.method = "PUT"
  /\ req'.scheme = "ipfs"
  /\ req'.body.k = "form"
  /\ resp'.status = 201
\* the parts of the form that are written and that no later written part
\* names again
LastParts(parts) ==
  {i \in DOMAIN parts :
     /\ parts[i].field = "file"
     /\ parts[i].name # E
     /\ \A j \in DOMAIN parts :
          (j > i /\ parts[j].field = "file") => parts[j].name # parts[i].name}

\* C23: after a multipart write, the file stored under each file name of
\* the form holds the content of the last part that carries the name.
C23_LaterPartWins ==
  [][FormWritten =>
       \A i \in LastParts(req'.body.parts) :
         getIPFS(St', Request("GET", "ipfs", Hostname(resp'.loc),
                              Front(req'.path) \o <<req'.body.parts[i].name>>)).resp.body
           = BytesOut(req'.body.parts[i].data)]_vars

\* POST ipns://localhost/?key=A is answered 201 for an alias A that no key
\* had
KeyMade ==
  /\ PostKeyAnswered
  /\ hasKey(St, req'.key) = 0
  /\ resp'.status = 201
\* what the name of the key made last resolves to
NewKeyResolved(st) ==
  ipfsResolve(st, <<E, S("ipns"), st.keys[Len(st.keys)].id, E>>, ResolveDepth)

\* C24 as stated: the key made by POST ipns://localhost/?key=A has a
\* record, and its name resolves to the empty directory.
C24_KeyMadePublished ==
  [][KeyMade =>
       /\ records'[nextKey'].seq > 0
       /\ NewKeyResolved(St').ok
       /\ NewKeyResolved(St').node = EmptyDir]_vars

\* C24, amended: the key made by POST ipns://localhost/?key=A is added to
\* the key list under the alias A, and nothing is published: the key has no
\* record, its name does not resolve, and the records of the other keys
\* are as they were.
C24_KeyMadeUnpublished ==
  [][KeyMade =>
       /\ nextKey' = nextKey + 1
       /\ keys' = Append(keys, [name |-> req'.key, id |-> KeyTok(nextKey', "base36")])
       /\ records'[nextKey'].seq = 0
       /\ ~NewKeyResolved(St').ok
       /\ \A i \in DOMAIN records : records'[i] = records[i]]_vars

\* the key k was made by the request answered
C24_Witness ==
  /\ req.method = "POST"
  /\ req.host = SPECIAL_HOSTNAME
  /\ req.key = S("k")
  /\ resp.status = 201
  /\ resp.loc = MakeURL("ipns", KeyTok(2, "base36"), <<E, E>>)
  /\ keys = <<SelfKey, [name |-> S("k"), id |-> KeyTok(2, "base36")]>>
  /\ records[2].seq = 0
  /\ ~NewKeyResolved(St).ok

\* a POST on ipld://localhost/ whose body decodes is made to a writable
\* adapter
IsPostIPLD ==
  /\ req = NoReq
  /\ writable
  /\ req'.method = "POST"
  /\ req'.scheme = "ipld"
  /\ req'.host = SPECIAL_HOSTNAME
  /\ req'.body.valid
\* the request is answered 201 and the value is stored with the codec
StoredAs(codec) ==
  /\ resp'.status = 201
  /\ dag' = dag \cup {[node |-> req'.body.c, codec |-> codec]}
\* the request is answered 400 and nothing is stored
Refused ==
  /\ resp'.status = 400
  /\ dag' = dag
SupportedType == req'.contentType \in {"application/json", "application/dag-json",
                                       "application/vnd.ipld.dag-cbor"}
SupportedFormat == req'.format \in {"dag-json", "dag-cbor"}

Named(scheme, name) ==
  IF scheme = "ipld"
  THEN (IF name \in {"dag-cbor", "application/vnd.ipld.dag-cbor"} THEN "cbor" ELSE "default")
  ELSE IF name \in {"raw", "application/vnd.ipld.raw"} THEN "raw"
  ELSE IF name \in {"car", "application/vnd.ipld.car"} THEN "car"
  ELSE "default"
\* the encoding of the response
EncodingOf(r) ==
  IF r.ctype = "application/vnd.ipld.dag-cbor" THEN "cbor"
  ELSE IF r.ctype = "application/vnd.ipld.raw" THEN "raw"
  ELSE IF r.ctype = "application/vnd.ipld.car" THEN "car"
  ELSE "default"

\* C25: a GET answered 200 is in the encoding that the format parameter
\* names when the request has one, and in the one that the Accept header
\* names otherwise.
C25_FormatFirst ==
  (req.method = "GET" /\ resp.status = 200) =>
    EncodingOf(resp) = Named(req.scheme, IF req.format # "" THEN req.format ELSE req.accept)

\* a DELETE is made on ipns://<publicId>/<path>, the public identifier of a
\* key the client holds whose record points to a directory with an entry
\* at <path>
DeleteOnPublishedName ==
  /\ req = NoReq
  /\ writable
  /\ req'.method = "DELETE"
  /\ req'.scheme = "ipns"
  /\ \E i \in DOMAIN keys : ToBase36(keys[i].id) = req'.host
  /\ records[req'.host.n].seq > 0
  /\ RecordDir(St, req'.host).t = "dir"
  /\ NonEmpty(req'.path) # <<>>
  /\ Walk(RecordDir(St, req'.host), NonEmpty(req'.path)).ok

\* C28: a DELETE on ipns://<key>/<path> is answered with the Location of
\* the root that the record of <key> points to, without <path>.
C28_DeleteUnderName ==
  [][DeleteOnPublishedName =>
       /\ resp'.status = 200
       /\ resp'.loc # NoURL
       /\ Hostname(resp'.loc).k = "cid"
       /\ IsWithout(Hostname(resp'.loc).c, RecordDir(St, req'.host), NonEmpty(req'.path))]_vars

\* two PUTs of a file below the public identifier of the same key, whose
\* record points to a directory, have both run to their end, the client
\* calls of one falling between those of the other
TwoPutsDone ==
  /\ \A t \in Tasks : tasks[t].pc = "done" /\ tasks[t].r.method = "PUT"
  /\ tasks[1].r.host = tasks[2].r.host
  /\ tasks[1].r.body # tasks[2].r.body
  /\ \E i \in DOMAIN keys : ToBase36(keys[i].id) = tasks[1].r.host
  /\ records[tasks[1].r.host.n].seq > 0
  /\ RecordDir(St, tasks[1].r.host).t = "dir"
\* the root that a PUT built: the root of the URL its upload returned
RootBuilt(task) == <<E, S("ipfs"), task.url.rest[1], E>>

\* C27: two concurrent PUTs below the same key both succeed, and after both
\* have finished the record of the key is the root that one of the two
\* built, not a mixture of them and not the root published before them.
C27_OneRecordWins ==
  TwoPutsDone =>
    /\ \A t \in Tasks : tasks[t].resp.status = 201
    /\ \E t \in Tasks : records[tasks[1].r.host.n].value = RootBuilt(tasks[t])

\* two POSTs on ipns://localhost/?key=A have both run to their end, and
\* both found no key named A when they checked
TwoKeyPostsDone ==
  /\ \A t \in Tasks :
       /\ tasks[t].pc = "done"
       /\ tasks[t].r.method = "POST"
       /\ tasks[t].exists = 0
  /\ tasks[1].r.key = tasks[2].r.key

\* C29: two concurrent POSTs on ipns://localhost/?key=A for a missing alias
\* A make exactly one key named A and both answer 201 with the same
\* Location; neither fails because the other made the key in between.
C29_OneKeyMade ==
  TwoKeyPostsDone =>
    /\ Cardinality({i \in DOMAIN keys : keys[i].name = tasks[1].r.key}) = 1
    /\ \A t \in Tasks : tasks[t].resp.status = 201
    /\ tasks[1].resp.loc = tasks[2].resp.loc

\* the response to a GET or HEAD on content, names, keys or a topic from an
\* adapter constructed with writable = w, over the client state st
ReadRouted(st, r, w) ==
  CASE Route(r, w) = "getIPFS" -> getIPFS(st, r).resp
    [] Route(r, w) = "getIPNS" -> getIPNS(st, r).resp
    [] Route(r, w) = "headIPFS" -> headIPFS(st, r).resp
    [] Route(r, w) = "headIPNS" -> headIPNS(st, r).resp
    [] Route(r, w) = "getKey" -> getKey(st, r).resp
    [] Route(r, w) = "getPubsub" -> getPubsub(st, r).resp
    [] OTHER -> onNotFound
\* a GET or HEAD on ipfs://, ipns:// or pubsub:// has been answered
ReadAnswered ==
  /\ req # NoReq
  /\ req.method \in {"GET", "HEAD"}
  /\ req.scheme \in {"ipfs", "ipns", "pubsub"}

\* C30: every GET and HEAD, GET pubsub://<topic>/ and GET
\* ipns://localhost/?key=A included, is answered as an adapter constructed
\* with writable = true answers it over the same client state, whatever the
\* adapter was constructed with.
C30_ReadsUngated == ReadAnswered => resp = ReadRouted(St, req, TRUE)
====
